---- MODULE Spec2Model ----
(***************************************************************************)
(* Composition-tree core of the Ruben UI: canonical sections, their visual *)
(* projection, the commit back into the canonical model, the mutation      *)
(* operators, the diff engine, the flattener and the application state     *)
(* that holds them together.                                               *)
(*                                                                         *)
(* Conventions.  A JavaScript string that the code inspects character by   *)
(* character (labels, names, prompt text) is a sequence of one-character   *)
(* strings; node ids and enum tags (kind, status) are TLA+ strings.        *)
(* null is the record Null; a JavaScript value whose type the code tests   *)
(* with typeof is a tagged record [t |-> type, v |-> payload].             *)
(***************************************************************************)
EXTENDS Integers, Sequences, FiniteSets, TLC

VARIABLES
  \* ---- module state of types.ts / history.ts
  nodeCounter,      \* _nodeCounter
  issued,           \* every id nodeId() has returned, in order (observation log)
  \* ---- React state of App
  tree,             \* VibeTree | null
  visualTrees,      \* VisualNode[]
  activeSection,
  selectedNodeId,
  history,
  currentHistoryId,
  treeDiffs,        \* Map<string, NodeDiff[]> as a list of <<key, value>> entries
  musicJob,         \* what a handleMusicGenerate call in flight has captured, or Null
  \* ---- harness for the function-level specifications
  cur,              \* the visual tree being operated on
  prev,             \* an earlier snapshot of it
  sec,              \* the canonical section it was projected from
  nops,             \* number of mutation operators applied so far
  last              \* the last call: its name, arguments and result

vars == <<nodeCounter, issued, tree, visualTrees, activeSection, selectedNodeId,
          history, currentHistoryId, treeDiffs, musicJob, cur, prev, sec, nops, last>>

appVars == <<tree, visualTrees, activeSection, selectedNodeId, history,
             currentHistoryId, treeDiffs, musicJob>>

\* ------------------------------------------------------------------ bounds
MaxNodes == 4      \* nodes of a generic tree drawn as input
MaxOps == 2        \* mutation operators chained on one input tree
MaxEdits == 1      \* mutation operators applied before a commit
MaxSteps == 4      \* handler calls of the application that change the models
MaxHistory == 2    \* entries of the generation history

\* --------------------------------------------------------- JavaScript values
Null == [t |-> "null"]
Undefined == [t |-> "undefined"]
Str(s) == [t |-> "string", v |-> s]
Num(n) == [t |-> "number", v |-> n]
Arr(a) == [t |-> "array", v |-> a]

\* string literals the code uses
S_untitled == <<"u","n","t","i","t","l","e","d">>
S_new == <<"n","e","w">>
S_instruments == <<"i","n","s","t","r","u","m","e","n","t","s">>
S_sonic_details == <<"s","o","n","i","c"," ","d","e","t","a","i","l","s">>
S_texture == <<"t","e","x","t","u","r","e">>

RECURSIVE Join(_, _)
\* Array.prototype.join on an array of strings
Join(a, sep) ==
  IF a = <<>> THEN <<>>
  ELSE IF Len(a) = 1 THEN a[1]
  ELSE a[1] \o sep \o Join(Tail(a), sep)

RECURSIVE Digits(_)
\* String(n) for a non-negative integer
Digits(n) ==
  LET d == <<"0","1","2","3","4","5","6","7","8","9">>[(n % 10) + 1]
  IN IF n < 10 THEN <<d>> ELSE Digits(n \div 10) \o <<d>>

\* ------------------------------------------------------------ types.ts
nodeIdIgnoresCounter(c) == "vn-1"
\* nodeId(): `vn-${++_nodeCounter}`, as a function of the counter before the call
nodeId(c) == "vn-" \o ToString(c + 1)

\* a VisualNode
VNode(i, l, k, ch) == [id |-> i, label |-> l, kind |-> k, children |-> ch]

\* --------------------------------------------------- visual tree helpers
RECURSIVE IdSeq(_)
\* the ids of a visual tree in depth-first pre-order
IdSeq(t) ==
  LET RECURSIVE kids(_)
      kids(ch) == IF ch = <<>> THEN <<>> ELSE IdSeq(Head(ch)) \o kids(Tail(ch))
  IN <<t.id>> \o kids(t.children)

RECURSIVE NodeSeq(_)
\* the nodes of a visual tree in depth-first pre-order
NodeSeq(t) ==
  LET RECURSIVE kids(_)
      kids(ch) == IF ch = <<>> THEN <<>> ELSE NodeSeq(Head(ch)) \o kids(Tail(ch))
  IN <<t>> \o kids(t.children)

Range(s) == {s[i] : i \in DOMAIN s}
IdsOf(t) == Range(IdSeq(t))
NodeCount(t) == Len(IdSeq(t))
DistinctIds(t) == Cardinality(IdsOf(t)) = NodeCount(t)
ChildIds(n) == [i \in DOMAIN n.children |-> n.children[i].id]

\* the node carrying id in t (t has pairwise-distinct ids and holds id)
NodeAt(t, id) == LET s == NodeSeq(t) IN s[CHOOSE i \in DOMAIN s : s[i].id = id]
\* the id of the parent of id in t, "" for the root
ParentId(t, id) ==
  LET s == NodeSeq(t)
      ps == {i \in DOMAIN s : \E j \in DOMAIN s[i].children : s[i].children[j].id = id}
  IN IF ps = {} THEN "" ELSE s[CHOOSE i \in ps : TRUE].id
\* ids of the subtree rooted at id
SubtreeIds(t, id) == IdsOf(NodeAt(t, id))
\* a sequence with the elements outside keep struck out
Restrict(s, keep) == SelectSeq(s, LAMBDA x : x \in keep)

\* ------------------------------------------- visualTree.ts: mutation operators
RECURSIVE editVisualNodeRelabelsAll(_, _, _)
editVisualNodeRelabelsAll(t, id, newLabel) ==
  [t EXCEPT !.label = newLabel,
            !.children = [i \in DOMAIN t.children |->
                            editVisualNodeRelabelsAll(t.children[i], id, newLabel)]]

RECURSIVE editVisualNode(_, _, _)
editVisualNode(t, id, newLabel) ==
  IF t.id = id THEN [t EXCEPT !.label = newLabel]
  ELSE [t EXCEPT !.children = [i \in DOMAIN t.children |->
                                 editVisualNode(t.children[i], id, newLabel)]]

deleteVisualNodeTopLevelOnly(t, id) ==
  [t EXCEPT !.children = SelectSeq(t.children, LAMBDA c : c.id # id)]

RECURSIVE deleteVisualNode(_, _)
deleteVisualNode(t, id) ==
  LET kept == SelectSeq(t.children, LAMBDA c : c.id # id)
  IN [t EXCEPT !.children = [i \in DOMAIN kept |-> deleteVisualNode(kept[i], id)]]

RECURSIVE addCalls(_, _)
\* the number of nodeId() calls addVisualChild makes on t: one per node it
\* reaches whose id is parentId (it does not descend below a match)
addCalls(t, parentId) ==
  LET RECURSIVE sum(_)
      sum(k) == IF k = 0 THEN 0 ELSE sum(k - 1) + addCalls(t.children[k], parentId)
  IN IF t.id = parentId THEN 1 ELSE sum(Len(t.children))

RECURSIVE addCallsBefore(_, _, _)
\* the calls made in the first k children of t
addCallsBefore(t, parentId, k) ==
  IF k = 0 THEN 0 ELSE addCallsBefore(t, parentId, k - 1) + addCalls(t.children[k], parentId)

RECURSIVE addVisualChildPrepends(_, _, _)
addVisualChildPrepends(t, parentId, c) ==
  IF t.id = parentId
  THEN [t EXCEPT !.children = <<VNode(nodeId(c), S_new, "custom", <<>>)>> \o t.children]
  ELSE [t EXCEPT !.children = [i \in DOMAIN t.children |->
          addVisualChildPrepends(t.children[i], parentId,
                                 c + addCallsBefore(t, parentId, i - 1))]]

RECURSIVE addVisualChildDefaultsToSection(_, _, _)
\* addVisualChild that appends to the section root when parentId is unknown
addVisualChildDefaultsToSection(t, parentId, c) ==
  IF t.id = parentId \/ (t.kind = "section" /\ parentId \notin IdsOf(t))
  THEN [t EXCEPT !.children = Append(t.children, VNode(nodeId(c), S_new, "custom", <<>>))]
  ELSE [t EXCEPT !.children = [i \in DOMAIN t.children |->
          addVisualChildDefaultsToSection(t.children[i], parentId,
                                          c + addCallsBefore(t, parentId, i - 1))]]

RECURSIVE addVisualChild(_, _, _)
\* c is _nodeCounter before the call; afterwards it is c + addCalls(t, parentId)
addVisualChild(t, parentId, c) ==
  IF t.id = parentId
  THEN [t EXCEPT !.children = Append(t.children, VNode(nodeId(c), S_new, "custom", <<>>))]
  ELSE [t EXCEPT !.children = [i \in DOMAIN t.children |->
          addVisualChild(t.children[i], parentId, c + addCallsBefore(t, parentId, i - 1))]]

\* ------------------------------------------------------------ treeDiff.ts
NodeDiff(i, st, l, cd) == [id |-> i, status |-> st, label |-> l, childrenDiff |-> cd]

RECURSIVE findNodeById(_, _)
findNodeById(node, id) ==
  LET RECURSIVE inKids(_)
      inKids(ch) ==
        IF ch = <<>> THEN Null
        ELSE LET found == findNodeById(Head(ch), id)
             IN IF found # Null THEN found ELSE inKids(Tail(ch))
  IN IF node.id = id THEN node ELSE inKids(node.children)

\* Array.prototype.find on a children list, by id; `|| null` applied
findChild(ch, id) ==
  LET hits == {i \in DOMAIN ch : ch[i].id = id}
  IN IF hits = {} THEN Null ELSE ch[CHOOSE i \in hits : \A j \in hits : i <= j]

RECURSIVE diffTreesRootUnchanged(_, _)
diffTreesRootUnchanged(currentTree, previousTree) ==
  NodeDiff(currentTree.id, "unchanged", currentTree.label,
           [i \in DOMAIN currentTree.children |->
              diffTreesRootUnchanged(currentTree.children[i], Null)])

RECURSIVE diffTreesIgnoresPrevious(_, _)
diffTreesIgnoresPrevious(currentTree, previousTree) ==
  NodeDiff(currentTree.id, "added", currentTree.label,
           [i \in DOMAIN currentTree.children |->
              diffTreesIgnoresPrevious(currentTree.children[i], Null)])

RECURSIVE diffTreesAddedWithoutChildren(_, _)
\* diffTrees whose "added" entries do not list the node's children
diffTreesAddedWithoutChildren(currentTree, previousTree) ==
  LET allAdded == NodeDiff(currentTree.id, "added", currentTree.label, <<>>)
  IN IF previousTree = Null THEN allAdded
     ELSE LET prevNode == findNodeById(previousTree, currentTree.id)
          IN IF prevNode = Null THEN allAdded
             ELSE
               LET status == IF currentTree.label # prevNode.label
                             THEN "changed" ELSE "unchanged"
                   current == [i \in DOMAIN currentTree.children |->
                                 diffTreesAddedWithoutChildren(currentTree.children[i],
                                   findChild(prevNode.children, currentTree.children[i].id))]
                   gone == SelectSeq(prevNode.children,
                             LAMBDA pc : findChild(currentTree.children, pc.id) = Null)
                   removed == [i \in DOMAIN gone |->
                                 NodeDiff(gone[i].id, "removed", gone[i].label, <<>>)]
               IN NodeDiff(currentTree.id, status, currentTree.label, current \o removed)

\* diffTrees that marks a node "changed" when anything below it differs
RECURSIVE diffTreesSubtreeMarksParent(_, _)
diffTreesSubtreeMarksParent(currentTree, previousTree) ==
  LET allAdded == NodeDiff(currentTree.id, "added", currentTree.label,
                    [i \in DOMAIN currentTree.children |->
                       diffTreesSubtreeMarksParent(currentTree.children[i], Null)])
  IN IF previousTree = Null THEN allAdded
     ELSE LET prevNode == findNodeById(previousTree, currentTree.id)
          IN IF prevNode = Null THEN allAdded
             ELSE
               LET status == IF currentTree # prevNode
                             THEN "changed" ELSE "unchanged"
                   current == [i \in DOMAIN currentTree.children |->
                                 diffTreesSubtreeMarksParent(currentTree.children[i],
                                   findChild(prevNode.children, currentTree.children[i].id))]
                   gone == SelectSeq(prevNode.children,
                             LAMBDA pc : findChild(currentTree.children, pc.id) = Null)
                   removed == [i \in DOMAIN gone |->
                                 NodeDiff(gone[i].id, "removed", gone[i].label,
                                   [j \in DOMAIN gone[i].children |->
                                      diffTreesSubtreeMarksParent(gone[i].children[j], Null)])]
                   childrenDiff == current \o removed
               IN NodeDiff(currentTree.id, status, currentTree.label,
                    IF Len(childrenDiff) > 0 THEN childrenDiff
                    ELSE [i \in DOMAIN currentTree.children |->
                            diffTreesSubtreeMarksParent(currentTree.children[i], Null)])

\* diffTrees returning the accumulated children list even when it is empty
RECURSIVE diffTreesWithoutFallback(_, _)
diffTreesWithoutFallback(currentTree, previousTree) ==
  LET allAdded == NodeDiff(currentTree.id, "added", currentTree.label,
                    [i \in DOMAIN currentTree.children |->
                       diffTreesWithoutFallback(currentTree.children[i], Null)])
  IN IF previousTree = Null THEN allAdded
     ELSE LET prevNode == findNodeById(previousTree, currentTree.id)
          IN IF prevNode = Null THEN allAdded
             ELSE
               LET status == IF currentTree.label # prevNode.label
                             THEN "changed" ELSE "unchanged"
                   current == [i \in DOMAIN currentTree.children |->
                                 diffTreesWithoutFallback(currentTree.children[i],
                                   findChild(prevNode.children, currentTree.children[i].id))]
                   gone == SelectSeq(prevNode.children,
                             LAMBDA pc : findChild(currentTree.children, pc.id) = Null)
                   removed == [i \in DOMAIN gone |->
                                 NodeDiff(gone[i].id, "removed", gone[i].label,
                                   [j \in DOMAIN gone[i].children |->
                                      diffTreesWithoutFallback(gone[i].children[j], Null)])]
                   childrenDiff == current \o removed
               IN NodeDiff(currentTree.id, status, currentTree.label,
                    childrenDiff)

RECURSIVE diffTrees(_, _)
diffTrees(currentTree, previousTree) ==
  LET allAdded == NodeDiff(currentTree.id, "added", currentTree.label,
                    [i \in DOMAIN currentTree.children |->
                       diffTrees(currentTree.children[i], Null)])
  IN IF previousTree = Null THEN allAdded
     ELSE LET prevNode == findNodeById(previousTree, currentTree.id)
          IN IF prevNode = Null THEN allAdded
             ELSE
               LET status == IF currentTree.label # prevNode.label
                             THEN "changed" ELSE "unchanged"
                   current == [i \in DOMAIN currentTree.children |->
                                 diffTrees(currentTree.children[i],
                                   findChild(prevNode.children, currentTree.children[i].id))]
                   gone == SelectSeq(prevNode.children,
                             LAMBDA pc : findChild(currentTree.children, pc.id) = Null)
                   removed == [i \in DOMAIN gone |->
                                 NodeDiff(gone[i].id, "removed", gone[i].label,
                                   [j \in DOMAIN gone[i].children |->
                                      diffTrees(gone[i].children[j], Null)])]
                   childrenDiff == current \o removed
               IN NodeDiff(currentTree.id, status, currentTree.label,
                    IF Len(childrenDiff) > 0 THEN childrenDiff
                    ELSE [i \in DOMAIN currentTree.children |->
                            diffTrees(currentTree.children[i], Null)])

RECURSIVE flattenDiff(_)
flattenDiff(diff) ==
  LET RECURSIVE kids(_)
      kids(cd) == IF cd = <<>> THEN <<>> ELSE flattenDiff(Head(cd)) \o kids(Tail(cd))
  IN <<diff>> \o kids(diff.childrenDiff)

\* ---------------------------------------------- visualTree.ts: projection
\* `"tree" in b`
HasTree(b) == "tree" \in DOMAIN b
\* truthiness of an object-or-null/undefined field
Truthy(x) == x # Null /\ x # Undefined
\* `x || []` for an array-or-null/undefined field (arrays are Arr(...))
OrEmpty(x) == IF Truthy(x) THEN x.v ELSE <<>>

createEmptySection(name) ==
  [name |-> name, weight |-> 25,     \* weights are in hundredths: 0.25
   branches |-> [mood |-> Null, genre |-> Null, instruments |-> Arr(<<>>),
                 texture |-> Null, sonic_details |-> Arr(<<>>),
                 metadata |-> [tempo_feel |-> Undefined, suggested_bpm |-> Undefined,
                               key |-> Undefined, time_signature |-> Undefined]]]

S_new_vibe == <<"n","e","w"," ","v","i","b","e">>
\* c is _nodeCounter before the call; afterwards it is c + 1
emptyVisualTree(vibe, c) ==
  VNode(nodeId(c), IF vibe # <<>> THEN vibe ELSE S_new_vibe, "section", <<>>)

\* labels.map(l => ({id: nodeId(), label: l, kind, children: []})): the i-th
\* element takes the i-th id after counter value c
leafNodes(labels, kind, c) ==
  [i \in DOMAIN labels |-> VNode(nodeId(c + i - 1), labels[i], kind, <<>>)]

\* JSON.stringify of an object whose values are strings: {"k":"v",...}
JSONStringify(pairs) ==
  <<"{">> \o Join([i \in DOMAIN pairs |->
                     <<"\"">> \o pairs[i][1] \o <<"\"", ":", "\"">> \o pairs[i][2] \o <<"\"">>],
                  <<",">>) \o <<"}">>

\* String(x) as Array.prototype.join applies it to an element
ElemToString(x) ==
  IF x.t = "string" THEN x.v
  ELSE IF x.t = "number" THEN Digits(x.v)
  ELSE <<>>

formatValue(value) ==
  IF value.t = "string" THEN value.v
  ELSE IF value.t = "number" THEN Digits(value.v)
  ELSE IF value.t = "array"
    THEN Join([i \in DOMAIN value.v |-> ElemToString(value.v[i])], <<",", " ">>)
  ELSE IF value.t = "object" THEN JSONStringify(value.v)
  ELSE <<>>

\* optional fields of a SongNode
FieldOr(node, f, dflt) == IF f \in DOMAIN node THEN node[f] ELSE dflt

RECURSIVE SongNodeCount(_)
\* nodes of a generic tree = nodeId() calls songNodeToVisualTree makes on it
SongNodeCount(node) ==
  LET ch == FieldOr(node, "children", <<>>)
      RECURSIVE sum(_)
      sum(k) == IF k = 0 THEN 0 ELSE sum(k - 1) + SongNodeCount(ch[k])
  IN 1 + sum(Len(ch))

RECURSIVE SongCountBefore(_, _)
SongCountBefore(ch, k) ==
  IF k = 0 THEN 0 ELSE SongCountBefore(ch, k - 1) + SongNodeCount(ch[k])

songNodeLabel(node) ==
  LET base == IF node.name # <<>> THEN node.name ELSE S_untitled
      value == FieldOr(node, "value", Undefined)
  IN IF Truthy(value) /\ formatValue(value) # <<>>
     THEN base \o <<":", " ">> \o formatValue(value)
     ELSE base

RECURSIVE songNodeToVisualTree(_, _, _)
\* the children are converted first, left to right, then the node takes its
\* id: c is _nodeCounter before the call, c + SongNodeCount(node) after it
songNodeToVisualTree(node, kind, c) ==
  LET ch == FieldOr(node, "children", <<>>)
  IN VNode(nodeId(c + SongCountBefore(ch, Len(ch))),
           songNodeLabel(node),
           kind,
           [i \in DOMAIN ch |->
              songNodeToVisualTree(ch[i], "custom", c + SongCountBefore(ch, i - 1))])

MIDDOT == <<" ", "MIDDOT", " ">>    \* " · " (the dot is one character)

\* one branch of the old structure: the children take their ids first, then
\* the group node; nothing is pushed when the group is absent
groupNodes(present, label, kind, kidLabels, kidKind, c) ==
  IF present
  THEN <<VNode(nodeId(c + Len(kidLabels)), label, kind, leafNodes(kidLabels, kidKind, c))>>
  ELSE <<>>
groupCalls(present, kidLabels) == IF present THEN Len(kidLabels) + 1 ELSE 0

moodKids(b) == IF Truthy(b.mood) THEN OrEmpty(b.mood.nuances) ELSE <<>>
genreKids(b) == IF Truthy(b.genre) THEN OrEmpty(b.genre.influences) ELSE <<>>
hasInstruments(b) == Truthy(b.instruments) /\ Len(b.instruments.v) > 0
instKids(b) ==
  IF hasInstruments(b) THEN [i \in DOMAIN b.instruments.v |-> b.instruments.v[i].name]
  ELSE <<>>
hasSonic(b) == Truthy(b.sonic_details) /\ Len(b.sonic_details.v) > 0
sonicKids(b) == IF hasSonic(b) THEN b.sonic_details.v ELSE <<>>
textureLabel(b) ==
  b.texture.density \o MIDDOT \o b.texture.movement \o MIDDOT \o b.texture.space

\* counter offsets at which each branch starts
genreAt(b) == groupCalls(Truthy(b.mood), moodKids(b))
instAt(b) == genreAt(b) + groupCalls(Truthy(b.genre), genreKids(b))
textureAt(b) == instAt(b) + groupCalls(hasInstruments(b), instKids(b))
sonicAt(b) == textureAt(b) + groupCalls(Truthy(b.texture), <<>>)
rootAt(b) == sonicAt(b) + groupCalls(hasSonic(b), sonicKids(b))

\* the number of nodeId() calls sectionToVisualTree makes
projectionCalls(section) ==
  IF HasTree(section.branches) THEN SongNodeCount(section.branches.tree)
  ELSE rootAt(section.branches) + 1

sectionToVisualTreeReusesIds(section, c) ==
  VNode(nodeId(0), IF section.name # <<>> THEN section.name ELSE S_untitled,
        "section", <<>>)

\* c is _nodeCounter before the call; afterwards it is c + projectionCalls(section)
sectionToVisualTree(section, c) ==
  LET b == section.branches
  IN IF HasTree(b) THEN songNodeToVisualTree(b.tree, "section", c)
     ELSE VNode(nodeId(c + rootAt(b)),
                IF section.name # <<>> THEN section.name ELSE S_untitled,
                "section",
                groupNodes(Truthy(b.mood), IF Truthy(b.mood) THEN b.mood.primary ELSE <<>>,
                           "mood", moodKids(b), "nuance", c)
                \o groupNodes(Truthy(b.genre), IF Truthy(b.genre) THEN b.genre.primary ELSE <<>>,
                              "genre", genreKids(b), "influence", c + genreAt(b))
                \o groupNodes(hasInstruments(b), S_instruments,
                              "instruments", instKids(b), "instrument", c + instAt(b))
                \o groupNodes(Truthy(b.texture), IF Truthy(b.texture) THEN textureLabel(b) ELSE <<>>,
                              "texture", <<>>, "custom", c + textureAt(b))
                \o groupNodes(hasSonic(b), S_sonic_details,
                              "sonic", sonicKids(b), "detail", c + sonicAt(b)))

\* ------------------------------------------------- visualTree.ts: commit
\* String.prototype.indexOf, 1-based; 0 when pat does not occur
IndexOf(s, pat) ==
  LET hits == {i \in 1..(Len(s) - Len(pat) + 1) : SubSeq(s, i, i + Len(pat) - 1) = pat}
  IN IF hits = {} THEN 0 ELSE CHOOSE i \in hits : \A j \in hits : i <= j

RECURSIVE Split(_, _)
\* String.prototype.split on a non-empty separator
Split(s, sep) ==
  LET i == IndexOf(s, sep)
  IN IF i = 0 THEN <<s>>
     ELSE <<SubSeq(s, 1, i - 1)>> \o Split(SubSeq(s, i + Len(sep), Len(s)), sep)

RECURSIVE Trim(_)
Trim(s) ==
  IF s = <<>> THEN s
  ELSE IF Head(s) = " " THEN Trim(Tail(s))
  ELSE IF s[Len(s)] = " " THEN Trim(SubSeq(s, 1, Len(s) - 1))
  ELSE s

DigitChars == {"0","1","2","3","4","5","6","7","8","9"}
DigitValue(ch) == CHOOSE d \in 0..9 : <<"0","1","2","3","4","5","6","7","8","9">>[d + 1] = ch

RECURSIVE DecimalValue(_)
DecimalValue(s) ==
  IF s = <<>> THEN 0 ELSE 10 * DecimalValue(SubSeq(s, 1, Len(s) - 1)) + DigitValue(s[Len(s)])

\* Number(s): whitespace is trimmed, the empty string is 0, a run of decimal
\* digits is its value, anything else over the alphabet of the labels drawn
\* here is NaN (signs, fractions, exponents, hex and Infinity are not drawn).
NumberOf(s) ==
  LET t == Trim(s)
  IN IF \A i \in DOMAIN t : t[i] \in DigitChars
     THEN [nan |-> FALSE, v |-> DecimalValue(t)]
     ELSE [nan |-> TRUE, v |-> 0]

RECURSIVE ParsePairs(_)
\* the members of a JSON object with string values: "k":"v","k":"v"
ParsePairs(s) ==
  LET q == <<"\"">>
      k2 == IndexOf(Tail(s), q)                          \* closing quote of the key
      afterKey == SubSeq(s, k2 + 2, Len(s))
      v2 == IndexOf(SubSeq(afterKey, 3, Len(afterKey)), q)   \* closing quote of the value
      rest == SubSeq(afterKey, v2 + 3, Len(afterKey))
      more == ParsePairs(Tail(rest))
  IN IF Len(s) < 5 \/ Head(s) # "\"" \/ k2 = 0 THEN [ok |-> FALSE, pairs |-> <<>>]
     ELSE IF Len(afterKey) < 3 \/ SubSeq(afterKey, 1, 2) # <<":", "\"">> \/ v2 = 0
       THEN [ok |-> FALSE, pairs |-> <<>>]
     ELSE LET pair == <<SubSeq(s, 2, k2), SubSeq(afterKey, 3, v2 + 1)>>
          IN IF rest = <<>> THEN [ok |-> TRUE, pairs |-> <<pair>>]
             ELSE IF Head(rest) = "," /\ more.ok
               THEN [ok |-> TRUE, pairs |-> <<pair>> \o more.pairs]
             ELSE [ok |-> FALSE, pairs |-> <<>>]

\* JSON.parse on a text that starts with "{" or "[": objects with string
\* values and the empty array parse; [ok |-> FALSE] is the SyntaxError.
JSONParse(s) ==
  IF s = <<"[", "]">> THEN [ok |-> TRUE, value |-> Arr(<<>>)]
  ELSE IF s = <<"{", "}">> THEN [ok |-> TRUE, value |-> [t |-> "object", v |-> <<>>]]
  ELSE IF Len(s) >= 2 /\ Head(s) = "{" /\ s[Len(s)] = "}"
    THEN LET p == ParsePairs(SubSeq(s, 2, Len(s) - 1))
         IN [ok |-> p.ok, value |-> [t |-> "object", v |-> p.pairs]]
  ELSE [ok |-> FALSE, value |-> Null]

\* parseLabelToNameValue that tries JSON before the comma-separated list
parseLabelTriesJsonFirst(label) ==
  LET colonIdx == IndexOf(label, <<":", " ">>)
      name == SubSeq(label, 1, colonIdx - 1)
      valueStr == SubSeq(label, colonIdx + 2, Len(label))
      num == NumberOf(valueStr)
      parts == Split(valueStr, <<",", " ">>)
      json == JSONParse(valueStr)
  IN IF colonIdx = 0 THEN [name |-> label, value |-> Null]
     ELSE IF ~num.nan /\ Trim(valueStr) # <<>> THEN [name |-> name, value |-> Num(num.v)]
     ELSE IF valueStr # <<>> /\ Head(valueStr) \in {"{", "["} /\ json.ok
       THEN [name |-> name, value |-> json.value]
     ELSE IF IndexOf(valueStr, <<",", " ">>) # 0
       THEN [name |-> name, value |-> Arr([i \in DOMAIN parts |-> Str(parts[i])])]
     ELSE [name |-> name, value |-> Str(valueStr)]

parseLabelToNameValue(label) ==
  LET colonIdx == IndexOf(label, <<":", " ">>)
      name == SubSeq(label, 1, colonIdx - 1)
      valueStr == SubSeq(label, colonIdx + 2, Len(label))
      num == NumberOf(valueStr)
      parts == Split(valueStr, <<",", " ">>)
      json == JSONParse(valueStr)
  IN IF colonIdx = 0 THEN [name |-> label, value |-> Null]
     ELSE IF ~num.nan /\ Trim(valueStr) # <<>> THEN [name |-> name, value |-> Num(num.v)]
     ELSE IF IndexOf(valueStr, <<",", " ">>) # 0
       THEN [name |-> name, value |-> Arr([i \in DOMAIN parts |-> Str(parts[i])])]
     ELSE IF valueStr # <<>> /\ Head(valueStr) \in {"{", "["} /\ json.ok
       THEN [name |-> name, value |-> json.value]
     ELSE [name |-> name, value |-> Str(valueStr)]

RECURSIVE visualNodeToSongNode(_)
visualNodeToSongNode(node) ==
  LET nv == parseLabelToNameValue(node.label)
  IN [name |-> nv.name,
      value |-> nv.value,
      children |-> [i \in DOMAIN node.children |-> visualNodeToSongNode(node.children[i])],
      metadata |-> <<>>]

Labels(ch) == [i \in DOMAIN ch |-> ch[i].label]

\* one iteration of the switch over the root's children
\* commitChild with role and character looked up by instrument name
commitChildMatchesByName(section, child, original) ==
  LET b == section.branches
  IN CASE child.kind = "mood" ->
            [section EXCEPT !.branches.mood =
               [(IF Truthy(b.mood) THEN b.mood ELSE [primary |-> <<>>, nuances |-> Arr(<<>>)])
                  EXCEPT !.primary = child.label, !.nuances = Arr(Labels(child.children))]]
       [] child.kind = "genre" ->
            [section EXCEPT !.branches.genre =
               [(IF Truthy(b.genre) THEN b.genre ELSE [primary |-> <<>>, influences |-> Arr(<<>>)])
                  EXCEPT !.primary = child.label, !.influences = Arr(Labels(child.children))]]
       [] child.kind = "instruments" ->
            LET orig == original.branches.instruments
                named(l) == IF Truthy(orig)
                              THEN {j \in DOMAIN orig.v : orig.v[j].name = l}
                              ELSE {}
                first(l) == CHOOSE j \in named(l) : \A k \in named(l) : j <= k
            IN [section EXCEPT !.branches.instruments =
                  Arr([i \in DOMAIN child.children |->
                         LET l == child.children[i].label
                         IN [name |-> l,
                             role |-> IF named(l) # {} THEN orig.v[first(l)].role
                                                       ELSE S_texture,
                             character |-> IF named(l) # {} THEN orig.v[first(l)].character
                                                            ELSE <<>>]])]
       [] child.kind = "sonic" ->
            [section EXCEPT !.branches.sonic_details = Arr(Labels(child.children))]
       [] OTHER -> section

commitChild(section, child, original) ==
  LET b == section.branches
  IN CASE child.kind = "mood" ->
            [section EXCEPT !.branches.mood =
               [(IF Truthy(b.mood) THEN b.mood ELSE [primary |-> <<>>, nuances |-> Arr(<<>>)])
                  EXCEPT !.primary = child.label, !.nuances = Arr(Labels(child.children))]]
       [] child.kind = "genre" ->
            [section EXCEPT !.branches.genre =
               [(IF Truthy(b.genre) THEN b.genre ELSE [primary |-> <<>>, influences |-> Arr(<<>>)])
                  EXCEPT !.primary = child.label, !.influences = Arr(Labels(child.children))]]
       [] child.kind = "instruments" ->
            LET orig == original.branches.instruments
                has(i) == Truthy(orig) /\ i <= Len(orig.v)
            IN [section EXCEPT !.branches.instruments =
                  Arr([i \in DOMAIN child.children |->
                         [name |-> child.children[i].label,
                          role |-> IF has(i) THEN orig.v[i].role ELSE S_texture,
                          character |-> IF has(i) THEN orig.v[i].character ELSE <<>>]])]
       [] child.kind = "sonic" ->
            [section EXCEPT !.branches.sonic_details = Arr(Labels(child.children))]
       [] OTHER -> section

RECURSIVE commitChildren(_, _, _)
commitChildren(section, kids, original) ==
  IF kids = <<>> THEN section
  ELSE commitChildren(commitChild(section, Head(kids), original), Tail(kids), original)

visualTreeToSectionDropsWeight(node, original) ==
  [commitChildren(original, node.children, original) EXCEPT !.weight = 0]

visualTreeToSectionResetsRoles(node, original) ==
  commitChildren(original, node.children,
    [original EXCEPT !.branches.instruments = Null])

visualTreeToSection(node, original) ==
  IF HasTree(original.branches)
  THEN [original EXCEPT !.branches.tree = visualNodeToSongNode(node)]
  ELSE commitChildren(original, node.children, original)

\* ------------------------------------------------------------ flatten.ts
LowerChars == <<"a","b","c","d","e","f","g","h","i","j","k","l","m",
                "n","o","p","q","r","s","t","u","v","w","x","y","z">>
UpperChars == <<"A","B","C","D","E","F","G","H","I","J","K","L","M",
                "N","O","P","Q","R","S","T","U","V","W","X","Y","Z">>
\* toUpperCase of one character
ToUpperCase(ch) ==
  IF \E i \in DOMAIN LowerChars : LowerChars[i] = ch
  THEN UpperChars[CHOOSE i \in DOMAIN LowerChars : LowerChars[i] = ch]
  ELSE ch

\* name.charAt(0).toUpperCase() + name.slice(1)
Capitalize(name) ==
  IF name = <<>> THEN <<>> ELSE <<ToUpperCase(Head(name))>> \o Tail(name)

NL == <<"\n">>
COMMA == <<",", " ">>
S_null == <<"n","u","l","l">>

\* "#".repeat(k)
Hashes(k) == [i \in 1..k |-> "#"]

\* `${v}` of a metadata value of a generic node
metaValueText(v) ==
  IF v.t = "array" THEN Join([i \in DOMAIN v.v |-> ElemToString(v.v[i])], COMMA)
  ELSE IF v.t = "object" THEN JSONStringify(v.v)
  ELSE IF v.t = "null" THEN S_null
  ELSE ElemToString(v)

\* the "**k**: v" entries joined by two spaces and a newline
metaStr(md) ==
  Join([i \in DOMAIN md |->
          <<"*","*">> \o md[i][1] \o <<"*","*",":"," ">> \o metaValueText(md[i][2])],
       <<" ", " ", "\n">>)

\* the lines a node's value contributes
valueLines(value) ==
  IF value.t = "array"
  THEN LET values == SelectSeq(value.v, LAMBDA v : v.t = "string" /\ v.v # <<>>)
       IN IF values = <<>> THEN <<>>
          ELSE <<<<>>>> \o [i \in DOMAIN values |-> <<"-", " ">> \o values[i].v]
  ELSE IF value.t = "string" /\ value.v # <<>> THEN <<<<>>, value.v>>
  ELSE <<>>

RECURSIVE renderNode(_, _)
RECURSIVE renderChildren(_, _)
renderChildren(ch, depth) ==
  IF ch = <<>> THEN <<>>
  ELSE renderNode(Head(ch), depth) \o <<<<>>>> \o renderChildren(Tail(ch), depth)

\* the lines renderNode pushes for n at the given depth
renderNode(n, depth) ==
  <<Hashes(IF depth + 1 < 6 THEN depth + 1 ELSE 6) \o <<" ">> \o n.name>>
  \o valueLines(FieldOr(n, "value", Undefined))
  \o (IF FieldOr(n, "metadata", <<>>) # <<>> THEN <<<<>>, metaStr(n.metadata)>> ELSE <<>>)
  \o (IF FieldOr(n, "children", <<>>) # <<>>
      THEN <<<<>>>> \o renderChildren(n.children, depth + 1)
      ELSE <<>>)

flattenSongNode(node) ==
  IF ~Truthy(node) THEN <<>> ELSE Join(renderNode(node, 0), NL)

\* Set.prototype.add on an insertion-ordered set
SetAdd(set, x) == IF \E i \in DOMAIN set : set[i] = x THEN set ELSE Append(set, x)

RECURSIVE SetAddAll(_, _)
SetAddAll(set, xs) == IF xs = <<>> THEN set ELSE SetAddAll(SetAdd(set, Head(xs)), Tail(xs))

Br(b, f) == FieldOr(b, f, Undefined)

\* the tags one section adds, in the order the loop adds them
sectionTags(b) ==
  (IF Truthy(Br(b, "genre")) /\ b.genre.primary # <<>> THEN <<b.genre.primary>> ELSE <<>>)
  \o (IF Truthy(Br(b, "genre")) THEN b.genre.influences.v ELSE <<>>)
  \o (IF Truthy(Br(b, "mood")) /\ b.mood.primary # <<>> THEN <<b.mood.primary>> ELSE <<>>)
  \o (IF Truthy(Br(b, "instruments"))
      THEN [i \in DOMAIN b.instruments.v |-> b.instruments.v[i].name] ELSE <<>>)

RECURSIVE tagSet(_, _)
tagSet(set, sections) ==
  IF sections = <<>> THEN set
  ELSE tagSet(SetAddAll(set, sectionTags(Head(sections).branches)), Tail(sections))

\* the details array of one section
sectionDetails(b) ==
  (IF Truthy(Br(b, "instruments"))
   THEN [i \in DOMAIN b.instruments.v |->
           b.instruments.v[i].character \o <<" ">> \o b.instruments.v[i].name]
   ELSE <<>>)
  \o (IF Truthy(Br(b, "sonic_details")) THEN b.sonic_details.v ELSE <<>>)
  \o (IF Truthy(Br(b, "mood")) /\ b.mood.nuances.v # <<>>
      THEN <<Join(b.mood.nuances.v, COMMA)>> ELSE <<>>)

RECURSIVE lyricLines(_)
lyricLines(sections) ==
  IF sections = <<>> THEN <<>>
  ELSE << <<"[">> \o Capitalize(Head(sections).name) \o <<"]">>,
          <<"(">> \o Join(sectionDetails(Head(sections).branches), COMMA) \o <<")">>,
          <<>> >>
       \o lyricLines(Tail(sections))

RECURSIVE firstMetaTakesLast(_, _, _)
\* firstMeta that lets a later section override an earlier one
firstMetaTakesLast(sections, field, type) ==
  IF sections = <<>> THEN Null
  ELSE LET m == Br(Head(sections).branches, "metadata")
           later == firstMetaTakesLast(Tail(sections), field, type)
       IN IF later # Null THEN later
          ELSE IF Truthy(m) /\ FieldOr(m, field, Undefined).t = type
          THEN m[field]
          ELSE Null

RECURSIVE firstMeta(_, _, _)
\* the first metadata value of the given type over the sections, or Null
firstMeta(sections, field, type) ==
  IF sections = <<>> THEN Null
  ELSE LET m == Br(Head(sections).branches, "metadata")
       IN IF Truthy(m) /\ FieldOr(m, field, Undefined).t = type
          THEN m[field]
          ELSE firstMeta(Tail(sections), field, type)

S_Tags == <<"T","a","g","s",":"," ">>
S_Lyrics == <<"L","y","r","i","c","s",":">>
S_BPM == <<"B","P","M",":"," ">>
S_Key == <<"K","e","y",":"," ">>
S_TimeSignature == <<"T","i","m","e"," ","S","i","g","n","a","t","u","r","e",":"," ">>
S_Duration == <<"D","u","r","a","t","i","o","n",":"," ">>

hasTreeNode(root) ==
  /\ root.sections # <<>>
  /\ Truthy(Br(root.sections[1].branches, "tree"))
  /\ "name" \in DOMAIN root.sections[1].branches.tree

metadataLines(sections) ==
  LET bpm == firstMeta(sections, "suggested_bpm", "number")
      key == firstMeta(sections, "key", "string")
      timeSig == firstMeta(sections, "time_signature", "string")
  IN (IF bpm # Null THEN <<S_BPM \o Digits(bpm.v)>> ELSE <<>>)
     \o (IF key # Null THEN <<S_Key \o key.v>> ELSE <<>>)
     \o (IF timeSig # Null THEN <<S_TimeSignature \o timeSig.v>> ELSE <<>>)

S_undefined == <<"u","n","d","e","f","i","n","e","d">>

\* `${v}` for a number, null or undefined
TemplateText(v) ==
  IF v.t = "number" THEN Digits(v.v)
  ELSE IF v.t = "null" THEN S_null
  ELSE S_undefined

\* new Set(iterable): the elements in insertion order without duplicates;
\* null and undefined give the empty set
NewSet(iterable) ==
  IF iterable.t = "array" THEN SetAddAll(<<>>, iterable.v) ELSE <<>>

flattenTreeSkipsSonicDetails(t) ==
  Join(<<S_Tags \o Join(tagSet(NewSet(Br(t.root.global, "tags")), t.root.sections), COMMA), <<>>, S_Lyrics>>
       \o lyricLines([i \in DOMAIN t.root.sections |->
            [t.root.sections[i] EXCEPT !.branches.sonic_details = Arr(<<>>)]])
       \o metadataLines(t.root.sections)
       \o <<S_Duration \o TemplateText(Br(t.root.global, "duration_seconds")) \o <<"s">>>>, NL)

\* flattenTree that ends the generic output with the Duration line as well
flattenTreeAppendsDuration(t) ==
  IF hasTreeNode(t.root)
  THEN Join(<<flattenSongNode(t.root.sections[1].branches.tree),
              S_Duration \o TemplateText(Br(t.root.global, "duration_seconds")) \o <<"s">>>>, NL)
  ELSE Join(<<S_Tags \o Join(tagSet(NewSet(Br(t.root.global, "tags")), t.root.sections), COMMA),
              <<>>, S_Lyrics>>
            \o lyricLines(t.root.sections)
            \o metadataLines(t.root.sections)
            \o <<S_Duration \o TemplateText(Br(t.root.global, "duration_seconds")) \o <<"s">>>>, NL)

flattenTree(t) ==
  IF hasTreeNode(t.root)
  THEN flattenSongNode(t.root.sections[1].branches.tree)
  ELSE Join(<<S_Tags \o Join(tagSet(NewSet(Br(t.root.global, "tags")), t.root.sections), COMMA),
              <<>>, S_Lyrics>>
            \o lyricLines(t.root.sections)
            \o metadataLines(t.root.sections)
            \o <<S_Duration \o TemplateText(Br(t.root.global, "duration_seconds")) \o <<"s">>>>, NL)

\* ---------------------------------------------------------- transform.ts
\* JavaScript truthiness: tagged values by their tag, untagged records are objects
ToBoolean(x) ==
  IF "t" \in DOMAIN x
  THEN /\ x.t \notin {"null", "undefined"}
       /\ ~(x.t = "number" /\ x.v = 0)
       /\ ~(x.t = "string" /\ x.v = <<>>)
  ELSE TRUE

\* an input object: what its vibe_tree and root properties hold (Undefined when absent)
Payload(vt, root) == [t |-> "payload", vibe_tree |-> vt, root |-> root]

\* x.f, which is undefined on a primitive
Prop(x, f) == IF f \in DOMAIN x /\ f # "t" /\ f # "v" THEN x[f] ELSE Undefined

\* metadata?.[key] of a node whose metadata is a list of <<key, value>> entries
MetaGet(node, key) ==
  LET md == FieldOr(node, "metadata", <<>>)
      hits == {i \in DOMAIN md : md[i][1] = key}
  IN IF hits = {} THEN Undefined ELSE md[CHOOSE i \in hits : TRUE][2]

S_Untitled == <<"U","n","t","i","t","l","e","d">>
S_Untitled_Composition == <<"U","n","t","i","t","l","e","d"," ","C","o","m","p","o","s","i","t","i","o","n">>
S_evolving_journey == <<"e","v","o","l","v","i","n","g"," ","j","o","u","r","n","e","y">>
S_overall_arc == <<"o","v","e","r","a","l","l","_","a","r","c">>
S_tags == <<"t","a","g","s">>
S_duration_seconds == <<"d","u","r","a","t","i","o","n","_","s","e","c","o","n","d","s">>

Throw(message) == [t |-> "throw", message |-> message]
Return(value) == [t |-> "return", value |-> value]

\* root.name || dflt
NameOr(root, dflt) ==
  IF "name" \in DOMAIN root /\ root.name # <<>> THEN root.name ELSE dflt

transformedTree(root) ==
  [root |->
    [concept |-> NameOr(root, S_Untitled_Composition),
     image_interpretation |-> Null,
     sections |-> <<[name |-> NameOr(root, S_Untitled), weight |-> 100,
                     branches |-> [tree |-> root]]>>,
     global |->
       [overall_arc |-> IF ToBoolean(MetaGet(root, S_overall_arc))
                        THEN MetaGet(root, S_overall_arc).v ELSE S_evolving_journey,
        tags |-> Arr(IF ToBoolean(MetaGet(root, S_tags))
                     THEN [i \in DOMAIN MetaGet(root, S_tags).v |->
                             ElemToString(MetaGet(root, S_tags).v[i])]
                     ELSE <<>>),
        duration_seconds |-> Num(IF ToBoolean(MetaGet(root, S_duration_seconds))
                                 THEN MetaGet(root, S_duration_seconds).v ELSE 180)]]]

transformAcceptsMissingRoot(data) ==
  Return(transformedTree([children |-> <<>>]))

transformSongCharacteristicsToVibeTree(data) ==
  LET characteristics == IF ToBoolean(Prop(data, "vibe_tree")) THEN data.vibe_tree ELSE data
  IN IF ~ToBoolean(characteristics)
     THEN Throw("No vibe_tree data in API response")
     ELSE IF ~ToBoolean(Prop(characteristics, "root"))
     THEN Throw("Invalid SongCharacteristics: missing root property")
     ELSE Return(transformedTree(characteristics.root))

\* ======================================================================
\* Inputs of the function-level specifications
\* ======================================================================
NullId == "null"          \* selectedNodeId = null (no id nodeId() returns)
UnknownId == "vn-0"       \* an id no tree holds: the counter starts at 1

A == <<"a">>
B == <<"b">>
X == <<"x">>

RECURSIVE SongTrees(_)
RECURSIVE SongForests(_)
\* generic nodes named "a" with exactly n nodes / forests with m nodes in all
SongTrees(n) == {[name |-> A, children |-> f] : f \in SongForests(n - 1)}
SongForests(m) ==
  IF m = 0 THEN {<<>>}
  ELSE UNION {{<<t>> \o f : t \in SongTrees(k), f \in SongForests(m - k)} : k \in 1..m}

GenericNodes == UNION {SongTrees(n) : n \in 1..MaxNodes}

GenericSection(node) == [name |-> node.name, weight |-> 100, branches |-> [tree |-> node]]

Inst(n, r, c) == [name |-> n, role |-> r, character |-> c]
S_lead == <<"l","e","a","d">>
S_warm == <<"w","a","r","m">>
EmptyMeta == [tempo_feel |-> Undefined, suggested_bpm |-> Undefined,
              key |-> Undefined, time_signature |-> Undefined]

\* fixed-attribute sections: every group present or absent, one or two members
FixedSections ==
  {[name |-> A, weight |-> 25,
    branches |-> [mood |-> m, genre |-> g, instruments |-> ins, texture |-> tx,
                  sonic_details |-> sd, metadata |-> EmptyMeta]] :
     m \in {Null, [primary |-> A, nuances |-> Arr(<<B>>)]},
     g \in {Null, [primary |-> B, influences |-> Arr(<<>>)]},
     ins \in {Arr(<<>>), Arr(<<Inst(A, S_lead, S_warm)>>)},
     tx \in {Null, [density |-> A, movement |-> B, space |-> A]},
     sd \in {Arr(<<>>), Arr(<<A, B>>)}}

TreeInputs == {GenericSection(n) : n \in GenericNodes} \cup
              {s \in FixedSections : projectionCalls(s) <= MaxNodes + 1}

\* the ids nodeId() hands out from counter value c up to (not including) d
IssuedBetween(c, d) == [i \in 1..(d - c) |-> nodeId(c + i - 1)]

\* the React state of App as useState initialises it
AppStart(t) ==
  /\ tree = t
  /\ visualTrees = <<>>
  /\ activeSection = 0
  /\ selectedNodeId = NullId
  /\ history = <<>>
  /\ currentHistoryId = NullId
  /\ treeDiffs = <<>>
  /\ musicJob = Null

AppIdle == AppStart(Null)

\* ======================================================================
\* SpecTree: the mutation operators and the diff engine on one visual tree
\* ======================================================================
TreeInit ==
  /\ AppIdle
  /\ sec \in TreeInputs
  /\ cur = sectionToVisualTree(sec, 0)
  /\ prev = cur
  /\ nodeCounter = projectionCalls(sec)
  /\ issued = IssuedBetween(0, nodeCounter)
  /\ nops = 0
  /\ last = [op |-> "init"]

EditLabels == {A, X}

\* editVisualNode applied to the tree, at most bound operators in all
MutEdit(bound) ==
  /\ nops < bound
  /\ \E id \in IdsOf(cur) \cup {UnknownId}, x \in EditLabels :
       /\ cur' = editVisualNode(cur, id, x)
       /\ last' = [op |-> "edit", before |-> cur, id |-> id, label |-> x]
  /\ nops' = nops + 1
  /\ UNCHANGED <<prev, sec, nodeCounter, issued, appVars>>

MutDelete(bound) ==
  /\ nops < bound
  /\ \E id \in IdsOf(cur) \cup {UnknownId} :
       /\ cur' = deleteVisualNode(cur, id)
       /\ last' = [op |-> "delete", before |-> cur, id |-> id]
  /\ nops' = nops + 1
  /\ UNCHANGED <<prev, sec, nodeCounter, issued, appVars>>

MutAdd(bound) ==
  /\ nops < bound
  /\ \E id \in IdsOf(cur) \cup {UnknownId} :
       /\ cur' = addVisualChild(cur, id, nodeCounter)
       /\ nodeCounter' = nodeCounter + addCalls(cur, id)
       /\ issued' = issued \o IssuedBetween(nodeCounter, nodeCounter')
       /\ last' = [op |-> "add", before |-> cur, id |-> id]
  /\ nops' = nops + 1
  /\ UNCHANGED <<prev, sec, appVars>>

TreeEdit == MutEdit(MaxOps)
TreeDelete == MutDelete(MaxOps)
TreeAdd == MutAdd(MaxOps)

DiffCall(c, p) ==
  LET d == diffTrees(c, p)
  IN last' = [op |-> "diff", current |-> c, previous |-> p, result |-> d,
              flat |-> flattenDiff(d)]

TreeDiffNull ==
  /\ DiffCall(cur, Null)
  /\ UNCHANGED <<cur, prev, sec, nops, nodeCounter, issued, appVars>>

TreeDiffSelf ==
  /\ DiffCall(cur, cur)
  /\ UNCHANGED <<cur, prev, sec, nops, nodeCounter, issued, appVars>>

TreeDiffPrev ==
  /\ DiffCall(cur, prev)
  /\ UNCHANGED <<cur, prev, sec, nops, nodeCounter, issued, appVars>>

TreeDiffBack ==
  /\ DiffCall(prev, cur)
  /\ UNCHANGED <<cur, prev, sec, nops, nodeCounter, issued, appVars>>

\* previous trees that hold ids of the current tree at other positions
MovedTree(a) ==
  VNode(nodeId(a), A, "section",
        <<VNode(nodeId((a + 1) % 3), B, "custom",
                <<VNode(nodeId((a + 2) % 3), X, "custom", <<>>)>>)>>)
MovedTrees == {MovedTree(a) : a \in 0..1}
PreviousTrees == {t \in MovedTrees : DistinctIds(t)}

TreeDiffMoved ==
  /\ \E p \in PreviousTrees : DiffCall(cur, p)
  /\ UNCHANGED <<cur, prev, sec, nops, nodeCounter, issued, appVars>>

TreeNext ==
  \/ TreeEdit
  \/ TreeDelete
  \/ TreeAdd
  \/ TreeDiffNull
  \/ TreeDiffSelf
  \/ TreeDiffPrev
  \/ TreeDiffBack
  \/ TreeDiffMoved

SpecTree == TreeInit /\ [][TreeNext]_vars

\* ----------------------------------------------------------------------
\* Claims checked under SpecTree
\* ----------------------------------------------------------------------
EditCase ==
  /\ last.op = "edit"
  /\ DistinctIds(last.before)
  /\ last.id \in IdsOf(last.before)

\* C2: after editVisualNode(tree, id, x) on a tree with pairwise-distinct ids
\* that holds id, the node with that id has label x and the same id, kind and
\* children, and every other node keeps its id, label, kind, parent and
\* position among its siblings.
C2_EditKeepsIdentityAndStructure ==
  EditCase =>
    /\ IdSeq(cur) = IdSeq(last.before)
    /\ NodeAt(cur, last.id).label = last.label
    /\ NodeAt(cur, last.id).children = NodeAt(last.before, last.id).children
    /\ \A n \in IdsOf(last.before) :
         /\ NodeAt(cur, n).kind = NodeAt(last.before, n).kind
         /\ ChildIds(NodeAt(cur, n)) = ChildIds(NodeAt(last.before, n))
         /\ ParentId(cur, n) = ParentId(last.before, n)
         /\ n # last.id => NodeAt(cur, n).label = NodeAt(last.before, n).label

\* an inner node that has children and siblings is relabelled to a new label
C2_Witness ==
  /\ EditCase
  /\ last.id # last.before.id
  /\ NodeAt(last.before, last.id).label # last.label
  /\ NodeAt(last.before, last.id).children # <<>>
  /\ NodeCount(last.before) >= 4

DeleteCase ==
  /\ last.op = "delete"
  /\ DistinctIds(last.before)
  /\ last.id \in IdsOf(last.before)
  /\ last.id # last.before.id

\* C3: deleteVisualNode(tree, id), for a non-root id of a tree with
\* pairwise-distinct ids, holds neither id nor any descendant of it, holds
\* every other node with unchanged label, kind and sibling order, and every
\* node other than the former parent of id has as many children as before.
C3_DeleteRemovesExactlyOneSubtree ==
  DeleteCase =>
    /\ IdsOf(cur) = IdsOf(last.before) \ SubtreeIds(last.before, last.id)
    /\ IdSeq(cur) = Restrict(IdSeq(last.before), IdsOf(cur))
    /\ \A n \in IdsOf(cur) :
         /\ NodeAt(cur, n).label = NodeAt(last.before, n).label
         /\ NodeAt(cur, n).kind = NodeAt(last.before, n).kind
         /\ ChildIds(NodeAt(cur, n)) = Restrict(ChildIds(NodeAt(last.before, n)), IdsOf(cur))
         /\ n # ParentId(last.before, last.id) =>
              Len(NodeAt(cur, n).children) = Len(NodeAt(last.before, n).children)

\* a node below the first level, with a child of its own, is deleted
C3_Witness ==
  /\ DeleteCase
  /\ ParentId(last.before, last.id) # last.before.id
  /\ NodeAt(last.before, last.id).children # <<>>
  /\ last.id \notin IdsOf(cur)

\* C4: diffTrees(t, null) gives status "added" to the root and to every
\* descendant, and flattenDiff of it has one entry per node of t.
C4_DiffAgainstNullAllAdded ==
  (last.op = "diff" /\ last.previous = Null) =>
    /\ last.result.status = "added"
    /\ \A i \in DOMAIN last.flat : last.flat[i].status = "added"
    /\ Len(last.flat) = NodeCount(last.current)
    /\ [i \in DOMAIN last.flat |-> last.flat[i].id] = IdSeq(last.current)

\* a tree of at least four nodes on three levels has been diffed against null
C4_Witness ==
  /\ last.op = "diff"
  /\ last.previous = Null
  /\ NodeCount(last.current) >= 4
  /\ \E i \in DOMAIN last.current.children : last.current.children[i].children # <<>>

\* C5: for a tree t with pairwise-distinct ids every entry of
\* flattenDiff(diffTrees(t, t)) is "unchanged" and there is exactly one entry
\* per node of t.
C5_DiffAgainstSelfAllUnchanged ==
  (last.op = "diff" /\ last.previous = last.current /\ DistinctIds(last.current)) =>
    /\ \A i \in DOMAIN last.flat : last.flat[i].status = "unchanged"
    /\ [i \in DOMAIN last.flat |-> last.flat[i].id] = IdSeq(last.current)

\* a tree of at least four nodes on three levels has been diffed against itself
C5_Witness ==
  /\ last.op = "diff"
  /\ last.previous = last.current
  /\ NodeCount(last.current) >= 4
  /\ \E i \in DOMAIN last.current.children : last.current.children[i].children # <<>>

\* ======================================================================
\* SpecCommit: projection of a section, edits, and the commit back
\* ======================================================================
S_pad == <<"p","a","d">>
S_cold == <<"c","o","l","d">>
KeyMeta == [tempo_feel |-> Str(A), suggested_bpm |-> Null,
            key |-> Str(B), time_signature |-> Null]

\* fixed-attribute sections with every group present and non-empty
FullSections ==
  {[name |-> nm, weight |-> 25,
    branches |-> [mood |-> [primary |-> A, nuances |-> Arr(nu)],
                  genre |-> [primary |-> B, influences |-> Arr(<<A>>)],
                  instruments |-> Arr(ins),
                  texture |-> [density |-> A, movement |-> B, space |-> A],
                  sonic_details |-> Arr(<<B>>),
                  metadata |-> md]] :
     nm \in {A, <<>>},
     nu \in {<<>>, <<B, A>>},
     ins \in {<<Inst(A, S_lead, S_warm)>>,
              <<Inst(A, S_lead, S_warm), Inst(S_pad, S_texture, S_cold)>>},
     md \in {EmptyMeta, KeyMeta}}

\* generic sections whose nodes carry values
ValuedSections ==
  {GenericSection([name |-> A, value |-> v,
                   children |-> <<[name |-> B, value |-> w, children |-> <<>>]>>]) :
     v \in {Null, Str(B)},
     w \in {Num(12), Arr(<<Str(A), Str(B)>>)}}

SparseSections == {s \in FixedSections : projectionCalls(s) <= 3}

\* generic sections whose nodes carry per-node metadata
MetaSections ==
  {GenericSection([name |-> A, children |-> kids,
                   metadata |-> << <<S_tags, Arr(<<Str(X)>>)>> >>]) :
     kids \in {<<>>,
               <<[name |-> B, value |-> Str(A), children |-> <<>>,
                  metadata |-> << <<S_overall_arc, Str(B)>> >>]>>}}

\* the sections ingestion produces from a root with and without a name, as
\* they are and renamed
IngestedSections ==
  LET made == {transformedTree(r).root.sections[1] :
                 r \in {[name |-> <<>>, children |-> <<>>],
                        [name |-> A, children |-> <<[name |-> B, children |-> <<>>]>>]}}
  IN made \cup {[sct EXCEPT !.name = X] : sct \in made}

CommitSections ==
  FullSections \cup SparseSections \cup ValuedSections \cup MetaSections
  \cup IngestedSections

\* originals a tree is committed against besides the section it came from
CrossOriginals ==
  {createEmptySection(A)} \cup
  {s \in FullSections : s.name = A /\ Len(s.branches.instruments.v) = 1
                          /\ s.branches.mood.nuances.v = <<>> /\ s.branches.metadata = KeyMeta}

CommitInit ==
  /\ AppIdle
  /\ sec \in CommitSections
  /\ cur = sectionToVisualTree(sec, 0)
  /\ prev = cur
  /\ nodeCounter = projectionCalls(sec)
  /\ issued = IssuedBetween(0, nodeCounter)
  /\ nops = 0
  /\ last = [op |-> "init"]

CommitEdit == MutEdit(MaxEdits)
CommitDelete == MutDelete(MaxEdits)
CommitAdd == MutAdd(MaxEdits)

\* visualTreeToSection(cur, original)
Commit ==
  /\ \E original \in {sec} \cup CrossOriginals :
       last' = [op |-> "commit", node |-> cur, original |-> original,
                result |-> visualTreeToSection(cur, original)]
  /\ UNCHANGED <<cur, prev, sec, nops, nodeCounter, issued, appVars>>

CommitNext ==
  \/ CommitEdit
  \/ CommitDelete
  \/ CommitAdd
  \/ Commit

SpecCommit == CommitInit /\ [][CommitNext]_vars

\* ----------------------------------------------------------------------
\* C1 and C10
\* ----------------------------------------------------------------------
IsFull(s) ==
  /\ ~HasTree(s.branches)
  /\ s.branches.mood # Null
  /\ s.branches.genre # Null
  /\ s.branches.texture # Null
  /\ s.branches.instruments.v # <<>>
  /\ s.branches.sonic_details.v # <<>>

\* the tree committed is the untouched projection of the section in sec
RoundTripCase ==
  /\ last.op = "commit"
  /\ nops = 0
  /\ last.original = sec
  /\ last.node = sectionToVisualTree(sec, 0)
  /\ IsFull(sec)

\* C1: for a fixed-attribute section S whose mood, genre, instruments,
\* texture and sonic_details groups are all present and non-empty,
\* committing the projection of S against S gives back S in every field.
C1_RoundTripIsIdentity ==
  RoundTripCase => last.result = sec

C1_Witness ==
  /\ RoundTripCase
  /\ Len(sec.branches.instruments.v) = 2
  /\ sec.branches.mood.nuances.v # <<>>
  /\ sec.branches.metadata = KeyMeta
  /\ last.result = sec

RootKinds(v) == {v.children[i].kind : i \in DOMAIN v.children}

GroupFrame(R, S, v, field, kind) ==
  R.branches[field] # S.branches[field] => kind \in RootKinds(v)

CommitFrame(R, S, v) ==
  /\ DOMAIN R = DOMAIN S
  /\ R.name = S.name
  /\ R.weight = S.weight
  /\ DOMAIN R.branches = DOMAIN S.branches
  /\ IF HasTree(S.branches)
     THEN \A f \in DOMAIN S.branches \ {"tree"} : R.branches[f] = S.branches[f]
     ELSE /\ R.branches.texture = S.branches.texture
          /\ R.branches.metadata = S.branches.metadata
          /\ GroupFrame(R, S, v, "mood", "mood")
          /\ GroupFrame(R, S, v, "genre", "genre")
          /\ GroupFrame(R, S, v, "instruments", "instruments")
          /\ GroupFrame(R, S, v, "sonic_details", "sonic")

\* C10: committing any visual tree v against any original section S keeps
\* S's name and weight; for a fixed-attribute S it keeps texture and
\* metadata and changes a group (mood, genre, instruments, sonic_details)
\* only if the root of v has a child of that kind; for a generic S nothing
\* but branches.tree changes; and the S passed in is left as it was.
C10_CommitFrameCondition ==
  last.op = "commit" =>
    /\ CommitFrame(last.result, last.original, last.node)
    /\ last.original \in {sec} \cup CrossOriginals

C10_Witness ==
  /\ last.op = "commit"
  /\ nops = 1
  /\ IsFull(last.original)
  /\ last.result.branches.mood # last.original.branches.mood
  /\ last.result.branches.sonic_details = last.original.branches.sonic_details
  /\ last.result.branches.metadata = KeyMeta
  /\ "mood" \in RootKinds(last.node)
  /\ CommitFrame(last.result, last.original, last.node)

\* ======================================================================
\* SpecFlatten: flattenTree applied to a canonical tree
\* ======================================================================
MaxSections == 2      \* sections of a flattened tree

S_intro == <<"i","n","t","r","o">>
S_isolation == <<"i","s","o","l","a","t","i","o","n">>
S_stillness == <<"s","t","i","l","l","n","e","s","s">>
S_ambient == <<"a","m","b","i","e","n","t">>
S_bowed_pad == <<"b","o","w","e","d"," ","p","a","d">>
S_glacial == <<"g","l","a","c","i","a","l">>
S_faint_wind == <<"f","a","i","n","t"," ","w","i","n","d">>
S_D_minor == <<"D"," ","m","i","n","o","r">>
S_4_4 == <<"4","/","4">>

IntroMeta == [tempo_feel |-> Undefined, suggested_bpm |-> Null,
              key |-> Str(S_D_minor), time_signature |-> Null]
FullMeta == [tempo_feel |-> Str(A), suggested_bpm |-> Num(120),
             key |-> Str(B), time_signature |-> Str(S_4_4)]

IntroSection ==
  [name |-> S_intro, weight |-> 25,
   branches |-> [mood |-> [primary |-> S_isolation, nuances |-> Arr(<<S_stillness>>)],
                 genre |-> [primary |-> S_ambient, influences |-> Arr(<<>>)],
                 instruments |-> Arr(<<Inst(S_bowed_pad, S_texture, S_glacial)>>),
                 texture |-> Null,
                 sonic_details |-> Arr(<<S_faint_wind>>),
                 metadata |-> IntroMeta]]

FlattenSections ==
  {[name |-> nm, weight |-> 25,
    branches |-> [mood |-> m,
                  genre |-> [primary |-> S_ambient, influences |-> Arr(<<>>)],
                  instruments |-> Arr(ins),
                  texture |-> Null,
                  sonic_details |-> Arr(sd),
                  metadata |-> md]] :
     nm \in {S_intro, B},
     m \in {Null, [primary |-> S_isolation, nuances |-> Arr(<<>>)],
            [primary |-> S_isolation, nuances |-> Arr(<<S_stillness>>)],
            [primary |-> A, nuances |-> Arr(<<S_stillness, B>>)]},
     ins \in {<<>>, <<Inst(S_bowed_pad, S_texture, S_glacial)>>,
              <<Inst(S_bowed_pad, S_texture, S_glacial), Inst(A, S_lead, S_warm)>>},
     sd \in {<<>>, <<S_faint_wind>>, <<B, S_faint_wind>>},
     md \in {EmptyMeta, IntroMeta, FullMeta}}

\* the sections that may follow the first one
LaterSections ==
  {createEmptySection(<<>>),
   [IntroSection EXCEPT !.name = X, !.branches.metadata = FullMeta],
   GenericSection([name |-> A, value |-> Str(B), children |-> <<>>])}

RECURSIVE SectionLists(_)
SectionLists(k) ==
  IF k = 0 THEN {<<>>}
  ELSE {<<>>} \cup {<<s>> \o r : s \in LaterSections, r \in SectionLists(k - 1)}

VibeTreeOf(sections, tags) ==
  [root |-> [concept |-> A, sections |-> sections,
             global |-> [overall_arc |-> A, tags |-> Arr(tags), duration_seconds |-> Num(180)]]]

FlattenTrees ==
  {VibeTreeOf(<<s>> \o r, tags) :
     s \in FlattenSections \cup ValuedSections,
     r \in SectionLists(MaxSections - 1),
     tags \in {<<>>, <<S_ambient, X>>}}
  \cup {VibeTreeOf(<<>>, <<>>)}

\* sections and global settings with optional fields absent or null
GapBranches ==
  {[texture |-> Null],
   [mood |-> Null, genre |-> Null, instruments |-> Null, texture |-> Null,
    sonic_details |-> Null, metadata |-> Null],
   [mood |-> [primary |-> S_isolation, nuances |-> Arr(<<S_stillness>>)]],
   [instruments |-> Arr(<<Inst(S_bowed_pad, S_texture, S_glacial)>>), metadata |-> Null],
   [genre |-> [primary |-> S_ambient, influences |-> Arr(<<B>>)],
    sonic_details |-> Arr(<<S_faint_wind>>), metadata |-> IntroMeta],
   [mood |-> Null, metadata |-> FullMeta]}

GapSections == {[name |-> S_intro, weight |-> 25, branches |-> b] : b \in GapBranches}

GapGlobals ==
  {[overall_arc |-> A],
   [overall_arc |-> A, tags |-> Null, duration_seconds |-> Null],
   [overall_arc |-> A, tags |-> Arr(<<S_ambient, X>>)],
   [overall_arc |-> A, duration_seconds |-> Num(180)]}

GapTrees ==
  {[root |-> [concept |-> A, sections |-> <<s>> \o r, global |-> g]] :
     s \in GapSections \cup {IntroSection} \cup ValuedSections,
     r \in SectionLists(MaxSections - 1),
     g \in GapGlobals}

FlattenInit ==
  /\ \E t \in FlattenTrees \cup GapTrees : AppStart(t)
  /\ cur = Null
  /\ prev = Null
  /\ sec = Null
  /\ nodeCounter = 0
  /\ issued = <<>>
  /\ nops = 0
  /\ last = [op |-> "init"]

\* flattenTree(tree)
Flatten ==
  /\ last' = [op |-> "flatten", tree |-> tree, result |-> flattenTree(tree)]
  /\ UNCHANGED <<cur, prev, sec, nops, nodeCounter, issued, appVars>>

FlattenNext == Flatten

SpecFlatten == FlattenInit /\ [][FlattenNext]_vars

\* ----------------------------------------------------------------------
\* C8
\* ----------------------------------------------------------------------
Lines(text) == Split(text, NL)

StartsWith(s, pre) == Len(s) >= Len(pre) /\ SubSeq(s, 1, Len(pre)) = pre

\* everything the parenthesised line of a fixed-attribute section lists
ListedDetails(b) ==
  (IF Truthy(Br(b, "instruments"))
   THEN [i \in DOMAIN b.instruments.v |->
           b.instruments.v[i].character \o <<" ">> \o b.instruments.v[i].name]
   ELSE <<>>)
  \o (IF Truthy(Br(b, "sonic_details")) THEN b.sonic_details.v ELSE <<>>)
  \o (IF Truthy(Br(b, "mood")) THEN b.mood.nuances.v ELSE <<>>)

FixedMode(t) ==
  t.root.sections # <<>> /\ ~HasTree(t.root.sections[1].branches)

L_Intro == <<"[","I","n","t","r","o","]">>
L_IntroDetails == <<"(","g","l","a","c","i","a","l"," ","b","o","w","e","d"," ","p","a","d",","," ","f","a","i","n","t"," ","w","i","n","d",","," ","s","t","i","l","l","n","e","s","s",")">>
L_KeyDMinor == <<"K","e","y",":"," ","D"," ","m","i","n","o","r">>

\* the blocks of the fixed-attribute sections, in section order, right
\* after the "Lyrics:" line
BlocksInOrder(t, lines) ==
  /\ lines[3] = S_Lyrics
  /\ \A i \in DOMAIN t.root.sections :
       LET s == t.root.sections[i]
       IN ~HasTree(s.branches) =>
            /\ Len(lines) >= 3 + 3 * i
            /\ lines[3 * i + 1] = <<"[">> \o Capitalize(s.name) \o <<"]">>
            /\ lines[3 * i + 2] =
                 <<"(">> \o Join(ListedDetails(s.branches), COMMA) \o <<")">>

IntroInstance(lines) ==
  /\ \E i \in 1..(Len(lines) - 1) : lines[i] = L_Intro /\ lines[i + 1] = L_IntroDetails
  /\ \E i \in DOMAIN lines : lines[i] = L_KeyDMinor
  /\ \A i \in DOMAIN lines :
       ~StartsWith(lines[i], S_BPM) /\ ~StartsWith(lines[i], S_TimeSignature)

\* C8: in fixed-attribute mode flattenTree emits, for each section in
\* section order, the marker "[Name]" with the first letter capitalised
\* followed by one parenthesised line listing the instruments as
\* "{character} {name}", then the sonic details, then the mood nuances, all
\* joined by ", "; for the single section intro of the specification the
\* output has "[Intro]" followed by
\* "(glacial bowed pad, faint wind, stillness)", the line "Key: D minor",
\* and no BPM or Time Signature line.
C8_FlattenSectionBlocks ==
  (last.op = "flatten" /\ FixedMode(last.tree)) =>
    /\ BlocksInOrder(last.tree, Lines(last.result))
    /\ last.tree.root.sections = <<IntroSection>> => IntroInstance(Lines(last.result))

C8_Witness ==
  /\ last.op = "flatten"
  /\ last.tree.root.sections = <<IntroSection>>
  /\ BlocksInOrder(last.tree, Lines(last.result))
  /\ IntroInstance(Lines(last.result))

\* ======================================================================
\* SpecIngest: transformSongCharacteristicsToVibeTree applied to a response
\* ======================================================================
\* a legacy fixed-attribute VibeTree document
LegacyDocument == VibeTreeOf(<<IntroSection, createEmptySection(B)>>, <<X>>)

IngestRoots ==
  {Undefined, Null, Num(0), Str(<<>>),
   [name |-> A, children |-> <<>>],
   [name |-> <<>>, value |-> Str(B), children |-> <<[name |-> B, children |-> <<>>]>>],
   [name |-> A, children |-> <<>>,
    metadata |-> << <<S_tags, Arr(<<Str(X)>>)>>, <<S_duration_seconds, Num(60)>>,
                    <<S_overall_arc, Str(B)>> >>],
   [concept |-> A, sections |-> <<createEmptySection(A)>>],
   LegacyDocument.root}

IngestWrapped ==
  {Undefined, Null, Num(0), Num(5), Str(A)} \cup {Payload(Undefined, r) : r \in IngestRoots}

IngestInputs ==
  {Undefined, Null, Num(0), Num(5), Str(<<>>), Str(A)}
  \cup {Payload(vt, r) : vt \in IngestWrapped, r \in IngestRoots}

IngestInit ==
  /\ AppIdle
  /\ cur = Null
  /\ prev = Null
  /\ sec = Null
  /\ nodeCounter = 0
  /\ issued = <<>>
  /\ nops = 0
  /\ last \in {[op |-> "response", data |-> d] : d \in IngestInputs}

\* transformSongCharacteristicsToVibeTree(data)
Ingest ==
  /\ last.op = "response"
  /\ last' = [op |-> "ingest", data |-> last.data,
              result |-> transformSongCharacteristicsToVibeTree(last.data)]
  /\ UNCHANGED <<cur, prev, sec, nops, nodeCounter, issued, appVars>>

IngestNext == Ingest

SpecIngest == IngestInit /\ [][IngestNext]_vars

\* ----------------------------------------------------------------------
\* C9
\* ----------------------------------------------------------------------
Missing(x) == x = Undefined \/ x = Null

\* the characteristics object of an input: its vibe_tree property when it
\* holds something, else the input itself
CharacteristicsOf(d) ==
  IF d.t = "payload" /\ ToBoolean(d.vibe_tree) THEN d.vibe_tree ELSE d

HasNoRoot(c) == c.t # "payload" \/ Missing(c.root)

ErrorMessages ==
  {"No vibe_tree data in API response",
   "Invalid SongCharacteristics: missing root property"}

\* C9: for every input whose characteristics object (the input itself or
\* its vibe_tree property) is missing or has no root, the transform throws
\* an error with one of its two descriptive messages and returns no tree.
C9_IngestFailsLoudly ==
  (last.op = "ingest"
     /\ (Missing(CharacteristicsOf(last.data)) \/ HasNoRoot(CharacteristicsOf(last.data))))
  => /\ last.result.t = "throw"
     /\ last.result.message \in ErrorMessages
     /\ "value" \notin DOMAIN last.result

C9_Witness ==
  /\ last.op = "ingest"
  /\ last.data.t = "payload"
  /\ last.data.vibe_tree = Payload(Undefined, Undefined)
  /\ last.data.root = [name |-> A, children |-> <<>>]
  /\ last.result = Throw("Invalid SongCharacteristics: missing root property")

\* ======================================================================
\* Spec: the application (App.tsx), one action per handler
\* ======================================================================
S_section_ == <<"s","e","c","t","i","o","n"," ">>

\* Map.prototype.set on a list of <<key, value>> entries
MapSet(m, k, v) ==
  IF \E i \in DOMAIN m : m[i][1] = k
  THEN [i \in DOMAIN m |-> IF m[i][1] = k THEN <<k, v>> ELSE m[i]]
  ELSE Append(m, <<k, v>>)

RECURSIVE diffMap(_, _, _)
\* the map built by diffing the first k trees of cs against those of ps by index
diffMap(cs, ps, k) ==
  IF k = 0 THEN <<>>
  ELSE MapSet(diffMap(cs, ps, k - 1), cs[k].id,
              <<diffTrees(cs[k], IF k <= Len(ps) THEN ps[k] ELSE Null)>>)

syncToModel(newVisualTrees, currentTree) ==
  [currentTree EXCEPT !.root.sections =
     [i \in DOMAIN @ |->
        IF i <= Len(newVisualTrees) THEN visualTreeToSection(newVisualTrees[i], @[i])
        ELSE @[i]]]

\* history.ts: createHistoryEntry; the counter equals the number of entries made
createHistoryEntry(t, vts, flattenedPrompt, n) ==
  [id |-> "hist-" \o ToString(n + 1), tree |-> t, visualTrees |-> vts,
   flattenedPrompt |-> flattenedPrompt]

\* RemoveAt(s, i): s.splice(i, 1) / s.filter((_, j) => j !== i), i counted from 1
RemoveAt(s, i) == [j \in 1..(Len(s) - 1) |-> IF j < i THEN s[j] ELSE s[j + 1]]

AppLabels == {X}

\* what the backend job returns
GenerateResponses ==
  {Payload(Undefined, [name |-> A, children |-> <<>>]),
   Payload(Payload(Undefined, [name |-> A, children |-> <<[name |-> B, children |-> <<>>]>>]),
           Undefined),
   Payload(Undefined, Undefined)}

Init ==
  /\ AppIdle
  /\ nodeCounter = 0
  /\ issued = <<>>
  /\ cur = Null
  /\ prev = Null
  /\ sec = Null
  /\ nops = 0
  /\ last = [op |-> "init"]

Harness == <<cur, prev, sec>>

\* the tree view is rendered and shows visualTrees[activeSection]
TreeShown ==
  /\ tree # Null
  /\ activeSection + 1 \in DOMAIN visualTrees

ActiveTree == visualTrees[activeSection + 1]

handleGenerate ==
  /\ nops < MaxSteps
  /\ \E data \in GenerateResponses :
       LET r == transformSongCharacteristicsToVibeTree(data)
       IN IF r.t = "throw"
          THEN /\ last' = [op |-> "handleGenerate", error |-> r.message]
               /\ UNCHANGED <<appVars, nodeCounter, issued, nops>>
          ELSE /\ tree' = r.value
               /\ visualTrees' = <<sectionToVisualTree(r.value.root.sections[1], nodeCounter)>>
               /\ nodeCounter' = nodeCounter + projectionCalls(r.value.root.sections[1])
               /\ issued' = issued \o IssuedBetween(nodeCounter, nodeCounter')
               /\ activeSection' = 0
               /\ selectedNodeId' = NullId
               /\ nops' = nops + 1
               /\ last' = [op |-> "handleGenerate"]
               /\ UNCHANGED <<history, currentHistoryId, treeDiffs, musicJob>>
  /\ UNCHANGED Harness

handleEdit ==
  /\ nops < MaxSteps
  /\ TreeShown
  /\ \E id \in IdsOf(ActiveTree), newLabel \in AppLabels :
       /\ visualTrees' = [visualTrees EXCEPT ![activeSection + 1] =
                            editVisualNode(@, id, newLabel)]
       /\ last' = [op |-> "handleEdit", index |-> activeSection, id |-> id]
  /\ tree' = syncToModel(visualTrees', tree)
  /\ nops' = nops + 1
  /\ UNCHANGED <<activeSection, selectedNodeId, history, currentHistoryId, treeDiffs,
                 musicJob, nodeCounter, issued, Harness>>

handleDelete ==
  /\ nops < MaxSteps
  /\ TreeShown
  /\ \E id \in IdsOf(ActiveTree) :
       /\ visualTrees' = [visualTrees EXCEPT ![activeSection + 1] = deleteVisualNode(@, id)]
       /\ selectedNodeId' = IF selectedNodeId = id THEN NullId ELSE selectedNodeId
       /\ last' = [op |-> "handleDelete", index |-> activeSection, id |-> id]
  /\ tree' = syncToModel(visualTrees', tree)
  /\ nops' = nops + 1
  /\ UNCHANGED <<activeSection, history, currentHistoryId, treeDiffs,
                 musicJob, nodeCounter, issued, Harness>>

handleAdd ==
  /\ nops < MaxSteps
  /\ TreeShown
  /\ \E parentId \in IdsOf(ActiveTree) :
       /\ visualTrees' = [visualTrees EXCEPT ![activeSection + 1] =
                            addVisualChild(@, parentId, nodeCounter)]
       /\ nodeCounter' = nodeCounter + addCalls(ActiveTree, parentId)
       /\ last' = [op |-> "handleAdd", index |-> activeSection, id |-> parentId]
  /\ issued' = issued \o IssuedBetween(nodeCounter, nodeCounter')
  /\ tree' = syncToModel(visualTrees', tree)
  /\ nops' = nops + 1
  /\ UNCHANGED <<activeSection, selectedNodeId, history, currentHistoryId, treeDiffs,
                 musicJob, Harness>>

handleSelect ==
  /\ TreeShown
  /\ \E id \in IdsOf(ActiveTree) \cup {NullId} :
       /\ id # selectedNodeId
       /\ selectedNodeId' = id
       /\ last' = [op |-> "handleSelect", id |-> id]
  /\ UNCHANGED <<tree, visualTrees, activeSection, history, currentHistoryId, treeDiffs,
                 musicJob, nodeCounter, issued, nops, Harness>>

\* onActiveChange of the tree view
setActiveSection ==
  /\ tree # Null
  /\ \E i \in 0..(Len(visualTrees) - 1) :
       /\ i # activeSection
       /\ activeSection' = i
       /\ last' = [op |-> "setActiveSection", index |-> i]
  /\ UNCHANGED <<tree, visualTrees, selectedNodeId, history, currentHistoryId, treeDiffs,
                 musicJob, nodeCounter, issued, nops, Harness>>

handleHistorySelect ==
  /\ \E k \in DOMAIN history :
       /\ tree' = history[k].tree
       /\ visualTrees' = history[k].visualTrees
       /\ currentHistoryId' = history[k].id
       /\ treeDiffs' = IF tree # Null
                       THEN diffMap(history[k].visualTrees, visualTrees,
                                    Len(history[k].visualTrees))
                       ELSE <<>>
       /\ last' = [op |-> "handleHistorySelect", id |-> history[k].id]
  /\ activeSection' = 0
  /\ selectedNodeId' = NullId
  /\ UNCHANGED <<history, musicJob, nodeCounter, issued, nops, Harness>>

\* the updaters the detail panel of a section node passes
WeightUpdater(s) == [s EXCEPT !.weight = 50]
KeyUpdater(s) == [s EXCEPT !.branches.metadata.key = Str(B)]
Apply(u, s) == IF u = "weight" THEN WeightUpdater(s) ELSE KeyUpdater(s)

\* the detail panel shows the section controls: a node of kind "section" is
\* selected in the active tree and the active section holds a metadata object
SectionPanelShown ==
  /\ TreeShown
  /\ selectedNodeId \in IdsOf(ActiveTree)
  /\ NodeAt(ActiveTree, selectedNodeId).kind = "section"
  /\ activeSection + 1 \in DOMAIN tree.root.sections
  /\ "metadata" \in DOMAIN tree.root.sections[activeSection + 1].branches

handleUpdateSection ==
  /\ nops < MaxSteps
  /\ SectionPanelShown
  /\ \E u \in {"weight", "key"} :
       /\ tree' = [tree EXCEPT !.root.sections[activeSection + 1] = Apply(u, @)]
       /\ last' = [op |-> "handleUpdateSection", index |-> activeSection, updater |-> u]
  /\ visualTrees' = [visualTrees EXCEPT ![activeSection + 1] =
                       sectionToVisualTree(tree'.root.sections[activeSection + 1], nodeCounter)]
  /\ nodeCounter' = nodeCounter + projectionCalls(tree'.root.sections[activeSection + 1])
  /\ issued' = issued \o IssuedBetween(nodeCounter, nodeCounter')
  /\ nops' = nops + 1
  /\ UNCHANGED <<activeSection, selectedNodeId, history, currentHistoryId, treeDiffs,
                 musicJob, Harness>>

\* handleMusicGenerate up to its first await: the closure holds this render's state
handleMusicGenerateStart ==
  /\ nops < MaxSteps
  /\ Len(history) < MaxHistory
  /\ tree # Null
  /\ musicJob = Null
  /\ musicJob' = [tree |-> tree, visualTrees |-> visualTrees, history |-> history]
  /\ nops' = nops + 1
  /\ last' = [op |-> "handleMusicGenerate"]
  /\ UNCHANGED <<tree, visualTrees, activeSection, selectedNodeId, history,
                 currentHistoryId, treeDiffs, nodeCounter, issued, Harness>>

\* handleMusicGenerateDone that keeps only the new entry
handleMusicGenerateDoneReplacesHistory ==
  /\ musicJob # Null
  /\ LET entry == createHistoryEntry(musicJob.tree, musicJob.visualTrees,
                                     flattenTree(musicJob.tree), Len(history))
     IN /\ history' = <<entry>>
        /\ currentHistoryId' = entry.id
        /\ last' = [op |-> "handleMusicGenerateDone", id |-> entry.id]
  /\ treeDiffs' = diffMap(musicJob.visualTrees,
                          IF musicJob.history # <<>> THEN musicJob.history[1].visualTrees
                          ELSE <<>>,
                          Len(musicJob.visualTrees))
  /\ musicJob' = Null
  /\ UNCHANGED <<tree, visualTrees, activeSection, selectedNodeId,
                 nodeCounter, issued, nops, Harness>>

\* the job completed: the entry is built from what the closure holds
handleMusicGenerateDone ==
  /\ musicJob # Null
  /\ LET entry == createHistoryEntry(musicJob.tree, musicJob.visualTrees,
                                     flattenTree(musicJob.tree), Len(history))
     IN /\ history' = <<entry>> \o history
        /\ currentHistoryId' = entry.id
        /\ last' = [op |-> "handleMusicGenerateDone", id |-> entry.id]
  /\ treeDiffs' = diffMap(musicJob.visualTrees,
                          IF musicJob.history # <<>> THEN musicJob.history[1].visualTrees
                          ELSE <<>>,
                          Len(musicJob.visualTrees))
  /\ musicJob' = Null
  /\ UNCHANGED <<tree, visualTrees, activeSection, selectedNodeId,
                 nodeCounter, issued, nops, Harness>>

\* the job failed or timed out: only the alert
handleMusicGenerateFailed ==
  /\ musicJob # Null
  /\ musicJob' = Null
  /\ last' = [op |-> "handleMusicGenerateFailed"]
  /\ UNCHANGED <<tree, visualTrees, activeSection, selectedNodeId, history,
                 currentHistoryId, treeDiffs, nodeCounter, issued, nops, Harness>>

handleAddSection ==
  /\ nops < MaxSteps
  /\ tree # Null
  /\ Len(tree.root.sections) < MaxSections
  /\ LET name == S_section_ \o Digits(Len(tree.root.sections) + 1)
     IN /\ tree' = [tree EXCEPT !.root.sections = Append(@, createEmptySection(name))]
        /\ visualTrees' = Append(visualTrees, emptyVisualTree(name, nodeCounter))
  /\ nodeCounter' = nodeCounter + 1
  /\ issued' = issued \o IssuedBetween(nodeCounter, nodeCounter')
  /\ activeSection' = Len(tree'.root.sections) - 1
  /\ selectedNodeId' = NullId
  /\ nops' = nops + 1
  /\ last' = [op |-> "handleAddSection"]
  /\ UNCHANGED <<history, currentHistoryId, treeDiffs, musicJob, Harness>>

\* handleRemoveSection that leaves the visual trees as they are
handleRemoveSectionKeepsVisualTrees ==
  /\ nops < MaxSteps
  /\ tree # Null
  /\ Len(tree.root.sections) > 1
  /\ \E index \in 0..(Len(tree.root.sections) - 1) :
       /\ tree' = [tree EXCEPT !.root.sections = RemoveAt(@, index + 1)]
       /\ visualTrees' = visualTrees
       /\ activeSection' =
            IF activeSection >= Len(tree'.root.sections) THEN Len(tree'.root.sections) - 1
            ELSE IF activeSection > index THEN activeSection - 1
            ELSE activeSection
       /\ last' = [op |-> "handleRemoveSection", index |-> index, active |-> activeSection]
  /\ selectedNodeId' = NullId
  /\ nops' = nops + 1
  /\ UNCHANGED <<history, currentHistoryId, treeDiffs, musicJob, nodeCounter, issued, Harness>>

\* handleRemoveSection that leaves the active section index as it is
handleRemoveSectionKeepsActive ==
  /\ nops < MaxSteps
  /\ tree # Null
  /\ Len(tree.root.sections) > 1
  /\ \E index \in 0..(Len(tree.root.sections) - 1) :
       /\ tree' = [tree EXCEPT !.root.sections = RemoveAt(@, index + 1)]
       /\ visualTrees' = IF index + 1 \in DOMAIN visualTrees
                         THEN RemoveAt(visualTrees, index + 1) ELSE visualTrees
       /\ last' = [op |-> "handleRemoveSection", index |-> index, active |-> activeSection]
  /\ selectedNodeId' = NullId
  /\ nops' = nops + 1
  /\ UNCHANGED <<activeSection, history, currentHistoryId, treeDiffs, musicJob,
                 nodeCounter, issued, Harness>>

handleRemoveSection ==
  /\ nops < MaxSteps
  /\ tree # Null
  /\ Len(tree.root.sections) > 1
  /\ \E index \in 0..(Len(tree.root.sections) - 1) :
       /\ tree' = [tree EXCEPT !.root.sections = RemoveAt(@, index + 1)]
       /\ visualTrees' = IF index + 1 \in DOMAIN visualTrees
                         THEN RemoveAt(visualTrees, index + 1) ELSE visualTrees
       /\ activeSection' =
            IF activeSection >= Len(tree'.root.sections) THEN Len(tree'.root.sections) - 1
            ELSE IF activeSection > index THEN activeSection - 1
            ELSE activeSection
       /\ last' = [op |-> "handleRemoveSection", index |-> index, active |-> activeSection]
  /\ selectedNodeId' = NullId
  /\ nops' = nops + 1
  /\ UNCHANGED <<history, currentHistoryId, treeDiffs, musicJob, nodeCounter, issued, Harness>>

handleRenameSection ==
  /\ nops < MaxSteps
  /\ tree # Null
  /\ \E index \in 0..(Len(tree.root.sections) - 1), newName \in AppLabels :
       /\ tree' = [tree EXCEPT !.root.sections[index + 1].name = newName]
       /\ last' = [op |-> "handleRenameSection", index |-> index]
  /\ nops' = nops + 1
  /\ UNCHANGED <<visualTrees, activeSection, selectedNodeId, history, currentHistoryId,
                 treeDiffs, musicJob, nodeCounter, issued, Harness>>

Next ==
  \/ handleGenerate
  \/ handleEdit
  \/ handleDelete
  \/ handleAdd
  \/ handleSelect
  \/ setActiveSection
  \/ handleHistorySelect
  \/ handleUpdateSection
  \/ handleMusicGenerateStart
  \/ handleMusicGenerateDone
  \/ handleMusicGenerateFailed
  \/ handleAddSection
  \/ handleRemoveSection
  \/ handleRenameSection

Spec == Init /\ [][Next]_vars

\* ----------------------------------------------------------------------
\* C6 and C7
\* ----------------------------------------------------------------------
NodeOps == {"handleEdit", "handleDelete", "handleAdd", "handleUpdateSection"}

\* the ids the operation recorded in l deletes from the trees vts
DeletedBy(l, vts) ==
  IF l.op = "handleDelete" /\ l.id # vts[l.index + 1].id
  THEN SubtreeIds(vts[l.index + 1], l.id)
  ELSE {}

\* a step of one of the node operations keeps the id of every node it does
\* not delete, and the ids it brings in were never handed out before
IdsStableStep ==
  last'.op \in NodeOps =>
    \A i \in DOMAIN visualTrees :
      /\ i \in DOMAIN visualTrees'
      /\ (IdsOf(visualTrees[i]) \ DeletedBy(last', visualTrees)) \subseteq IdsOf(visualTrees'[i])
      /\ (IdsOf(visualTrees'[i]) \ IdsOf(visualTrees[i])) \cap Range(issued) = {}

\* C6: node ids are stable across every UI operation on a loaded tree
\* (rename node, add child, delete node, detail-panel update of a section):
\* every visual node that existed before the operation and was not deleted
\* by it has the same id afterwards, and only newly inserted nodes carry
\* ids that did not exist before.
C6_NodeIdsStableAcrossOperations == [][IdsStableStep]_vars

AllTrees ==
  Range(visualTrees) \cup UNION {Range(history[k].visualTrees) : k \in DOMAIN history}

\* C7: every id handed out by nodeId differs from every id handed out
\* earlier, so all nodes ever created, deleted ones included, have pairwise
\* distinct ids; the nodes of every tree carry handed-out ids, no tree holds
\* an id twice, and the trees shown side by side share no id.
C7_IdsUniqueNeverReused ==
  /\ Len(issued) = nodeCounter
  /\ \A i, j \in DOMAIN issued : i # j => issued[i] # issued[j]
  /\ \A t \in AllTrees : IdsOf(t) \subseteq Range(issued) /\ DistinctIds(t)
  /\ \A i, j \in DOMAIN visualTrees :
       i # j => IdsOf(visualTrees[i]) \cap IdsOf(visualTrees[j]) = {}

\* a section projected a second time: its new tree shares no id with the
\* tree of its first projection, which the history still holds
C7_Witness ==
  /\ last.op = "handleUpdateSection"
  /\ history # <<>>
  /\ Len(history[1].visualTrees) = Len(visualTrees)
  /\ IdsOf(visualTrees[last.index + 1])
       \cap IdsOf(history[1].visualTrees[last.index + 1]) = {}
  /\ C7_IdsUniqueNeverReused

\* ----------------------------------------------------------------------
\* C11
\* ----------------------------------------------------------------------
MetadataOf(node) == FieldOr(node, "metadata", <<>>)

RECURSIVE SameMetadata(_, _)
\* the generic trees r and s have the same shape and, node by node, the
\* same metadata
SameMetadata(r, s) ==
  LET rk == FieldOr(r, "children", <<>>)
      sk == FieldOr(s, "children", <<>>)
  IN /\ MetadataOf(r) = MetadataOf(s)
     /\ Len(rk) = Len(sk)
     /\ \A i \in DOMAIN rk : SameMetadata(rk[i], sk[i])

\* the untouched projection of the generic section in sec is committed
\* against it
GenericRoundTripCase ==
  /\ last.op = "commit"
  /\ nops = 0
  /\ last.original = sec
  /\ HasTree(sec.branches)

\* C11: for a generic-subtree section S whose nodes carry per-node
\* metadata, committing the projection of S against S yields a generic tree
\* in which every node has the same metadata as the corresponding node of S.
C11_GenericCommitKeepsMetadata ==
  GenericRoundTripCase =>
    SameMetadata(last.result.branches.tree, sec.branches.tree)

\* ----------------------------------------------------------------------
\* C12
\* ----------------------------------------------------------------------
InstrumentGroups(node) ==
  {i \in DOMAIN node.children : node.children[i].kind = "instruments"}

\* a fixed-attribute commit of a visual tree with one "instruments" group
InstrumentCommitCase ==
  /\ last.op = "commit"
  /\ ~HasTree(last.original.branches)
  /\ Cardinality(InstrumentGroups(last.node)) = 1

TheInstrumentGroup ==
  last.node.children[CHOOSE i \in InstrumentGroups(last.node) : TRUE]

OriginalInstrumentCount ==
  LET o == FieldOr(last.original.branches, "instruments", Undefined)
  IN IF o.t = "array" THEN Len(o.v) ELSE 0

\* C12: in a fixed-attribute commit the i-th child of the "instruments"
\* group produces instrument i of the result: its name is the child's label,
\* its role and character are those of instrument i of the original section,
\* and at or beyond the original instrument count the role is "texture" and
\* the character is the empty string; the result has exactly as many
\* instruments as the group has children.
C12_InstrumentCarryOverByIndex ==
  InstrumentCommitCase =>
    LET kids == TheInstrumentGroup.children
        res == last.result.branches.instruments
    IN /\ res.t = "array"
       /\ Len(res.v) = Len(kids)
       /\ \A i \in DOMAIN kids :
            /\ res.v[i].name = kids[i].label
            /\ IF i <= OriginalInstrumentCount
                 THEN /\ res.v[i].role = last.original.branches.instruments.v[i].role
                      /\ res.v[i].character =
                           last.original.branches.instruments.v[i].character
                 ELSE /\ res.v[i].role = S_texture
                      /\ res.v[i].character = <<>>

\* a relabelled first instrument keeps the original's role, and a second
\* child beyond the original's single instrument gets the defaults
C12_Witness ==
  /\ InstrumentCommitCase
  /\ OriginalInstrumentCount = 1
  /\ Len(TheInstrumentGroup.children) = 2
  /\ TheInstrumentGroup.children[1].label # last.original.branches.instruments.v[1].name
  /\ last.result.branches.instruments.v[1].role = S_lead
  /\ last.result.branches.instruments.v[2].role = S_texture
  /\ last.result.branches.instruments.v[2].character = <<>>

\* ----------------------------------------------------------------------
\* C13
\* ----------------------------------------------------------------------
\* editVisualNode, deleteVisualNode or addVisualChild was called with an id
\* that no node of the tree has
UnknownIdCase ==
  /\ last.op \in {"edit", "delete", "add"}
  /\ last.id \notin IdsOf(last.before)

\* C13: editVisualNode, deleteVisualNode and addVisualChild called with an
\* id that is not in the tree return a tree equal to their input.
C13_UnknownIdIsNoOp ==
  UnknownIdCase => cur = last.before

\* addVisualChild with an unknown parent on a tree with children
C13_Witness ==
  /\ UnknownIdCase
  /\ last.op = "add"
  /\ NodeCount(last.before) >= 2
  /\ cur = last.before

\* ----------------------------------------------------------------------
\* C14
\* ----------------------------------------------------------------------
\* addVisualChild was called on a tree with pairwise-distinct ids that holds
\* parentId
AddCase ==
  /\ last.op = "add"
  /\ DistinctIds(last.before)
  /\ last.id \in IdsOf(last.before)

AddedIds == IdsOf(cur) \ IdsOf(last.before)

\* C14: addVisualChild on a tree with distinct ids that holds parentId
\* returns a tree with exactly one more node; the new node is the last child
\* of the parent, has kind "custom", label "new", no children and an id that
\* is not in the input; every pre-existing node keeps its id, label, kind,
\* parent and relative order.
C14_AddAppendsExactlyOneNode ==
  AddCase =>
    /\ NodeCount(cur) = NodeCount(last.before) + 1
    /\ DistinctIds(cur)
    /\ Cardinality(AddedIds) = 1
    /\ \A n \in AddedIds :
         LET p == NodeAt(cur, last.id)
         IN /\ p.children # <<>>
            /\ p.children[Len(p.children)] = VNode(n, S_new, "custom", <<>>)
            /\ ParentId(cur, n) = last.id
    /\ Restrict(IdSeq(cur), IdsOf(last.before)) = IdSeq(last.before)
    /\ \A id \in IdsOf(last.before) :
         /\ NodeAt(cur, id).label = NodeAt(last.before, id).label
         /\ NodeAt(cur, id).kind = NodeAt(last.before, id).kind
         /\ ParentId(cur, id) = ParentId(last.before, id)
         /\ Restrict(ChildIds(NodeAt(cur, id)), IdsOf(last.before))
              = ChildIds(NodeAt(last.before, id))

\* the parent already had a child, and the new node comes after it
C14_Witness ==
  /\ AddCase
  /\ Len(NodeAt(last.before, last.id).children) >= 1
  /\ Len(NodeAt(cur, last.id).children)
       = Len(NodeAt(last.before, last.id).children) + 1
  /\ \E n \in AddedIds :
       NodeAt(cur, last.id).children[Len(NodeAt(cur, last.id).children)].id = n

\* ----------------------------------------------------------------------
\* C15
\* ----------------------------------------------------------------------
\* the statuses of a diff entry and of all entries below it
StatusesOf(entry) == {d.status : d \in Range(flattenDiff(entry))}

\* C15: when a child of the matched previous node has no counterpart among
\* the current node's children, diffTrees emits an entry for it with status
\* "removed", and every entry inside that entry's childrenDiff also has
\* status "removed".
C15_RemovedSubtreeTaggedRemovedThroughout ==
  last.op = "diff" =>
    \A d \in Range(last.flat) :
      d.status = "removed" => StatusesOf(d) = {"removed"}

\* ----------------------------------------------------------------------
\* C16
\* ----------------------------------------------------------------------
RECURSIVE Mirrors(_, _)
\* diff is the entry of node, and its childrenDiff starts with the entries of
\* node's children, in order
Mirrors(diff, node) ==
  /\ diff.id = node.id
  /\ Len(diff.childrenDiff) >= Len(node.children)
  /\ \A i \in DOMAIN node.children : Mirrors(diff.childrenDiff[i], node.children[i])

DiffIds(flat) == {d.id : d \in Range(flat)}

\* diffTrees was called on trees with pairwise-distinct ids, previous
\* possibly null
DiffCase ==
  /\ last.op = "diff"
  /\ DistinctIds(last.current)
  /\ last.previous # Null => DistinctIds(last.previous)

\* C16: for every pair (current, previous) of visual trees with distinct
\* ids within each tree, previous possibly null, every node id of current
\* occurs in flattenDiff(diffTrees(current, previous)), and the childrenDiff
\* of the entry for a current node contains an entry for each of that node's
\* children.
C16_EveryCurrentNodeHasDiffEntry ==
  DiffCase =>
    /\ IdsOf(last.current) \subseteq DiffIds(last.flat)
    /\ Mirrors(last.result, last.current)

\* the current tree has a node with a child that the previous tree does not
\* hold, next to an entry for a removed node
C16_Witness ==
  /\ DiffCase
  /\ last.previous # Null
  /\ \E n \in Range(NodeSeq(last.current)) :
       /\ n.id \notin IdsOf(last.previous)
       /\ n.children # <<>>
  /\ \E d \in Range(last.flat) : d.status = "removed"
  /\ IdsOf(last.current) \subseteq DiffIds(last.flat)

\* ----------------------------------------------------------------------
\* C17
\* ----------------------------------------------------------------------
\* the tags of the fields that are present in t
PresentTags(t) ==
  LET g == Br(t.root.global, "tags")
      of(b) ==
        (IF Truthy(Br(b, "genre"))
         THEN {b.genre.primary} \cup Range(b.genre.influences.v) ELSE {})
        \cup (IF Truthy(Br(b, "mood")) THEN {b.mood.primary} ELSE {})
        \cup (IF Truthy(Br(b, "instruments"))
              THEN {i.name : i \in Range(b.instruments.v)} ELSE {})
  IN (IF Truthy(g) THEN Range(g.v) ELSE {})
     \cup UNION {of(sct.branches) : sct \in Range(t.root.sections)}

\* the tags on the "Tags: " line
EmittedTags(lines) ==
  IF lines[1] = S_Tags THEN {}
  ELSE Range(Split(SubSeq(lines[1], Len(S_Tags) + 1, Len(lines[1])), COMMA))

\* some section of t has a metadata group with a value for field
SomeMeta(t, field) ==
  \E sct \in Range(t.root.sections) :
    LET m == Br(sct.branches, "metadata")
    IN Truthy(m) /\ Truthy(FieldOr(m, field, Undefined))

NoLine(lines, prefix) == \A i \in DOMAIN lines : ~StartsWith(lines[i], prefix)

\* an absent or null group of a section adds no tag, no list item and no
\* metadata line, and absent or null global tags add no tag
AbsentGroupsOmitted(t, lines) ==
  /\ StartsWith(lines[1], S_Tags)
  /\ EmittedTags(lines) \subseteq PresentTags(t)
  /\ BlocksInOrder(t, lines)
  /\ ~SomeMeta(t, "suggested_bpm") => NoLine(lines, S_BPM)
  /\ ~SomeMeta(t, "key") => NoLine(lines, S_Key)
  /\ ~SomeMeta(t, "time_signature") => NoLine(lines, S_TimeSignature)

\* an absent or null global.duration_seconds adds no line
AbsentDurationOmitted(t, lines) ==
  ~Truthy(Br(t.root.global, "duration_seconds")) => NoLine(lines, S_Duration)

\* C17: for every canonical tree in which any of a section's mood, genre,
\* instruments, texture, sonic_details or metadata groups, or global.tags or
\* global.duration_seconds, is absent or null, flattenTree returns a string,
\* and an absent field contributes no text to it: no tag, no list item and
\* no metadata line.
C17_FlattenOmitsAbsentFields ==
  (last.op = "flatten" /\ FixedMode(last.tree)) =>
    /\ AbsentGroupsOmitted(last.tree, Lines(last.result))
    /\ AbsentDurationOmitted(last.tree, Lines(last.result))

\* ----------------------------------------------------------------------
\* C18
\* ----------------------------------------------------------------------
\* the metadata value of section i for field, Null when it has none
MetaValue(t, i, field) ==
  LET m == Br(t.root.sections[i].branches, "metadata")
  IN IF Truthy(m) /\ Truthy(FieldOr(m, field, Undefined)) THEN m[field] ELSE Null

\* the sections that have a value for field
WithMeta(t, field) == {i \in DOMAIN t.root.sections : MetaValue(t, i, field) # Null}

\* the value of the first such section
FirstValue(t, field) ==
  MetaValue(t, CHOOSE i \in WithMeta(t, field) : \A j \in WithMeta(t, field) : i <= j, field)

\* the line for field: none when no section has a value
MetaLine(t, field, prefix) ==
  IF WithMeta(t, field) = {} THEN <<>>
  ELSE LET v == FirstValue(t, field)
       IN <<prefix \o (IF v.t = "number" THEN Digits(v.v) ELSE v.v)>>

ExpectedTail(t) ==
  MetaLine(t, "suggested_bpm", S_BPM)
  \o MetaLine(t, "key", S_Key)
  \o MetaLine(t, "time_signature", S_TimeSignature)
  \o <<S_Duration \o TemplateText(Br(t.root.global, "duration_seconds")) \o <<"s">>>>

\* C18: in fixed-attribute mode the emitted BPM, Key and Time Signature
\* are each, independently, the value of the first section in section order
\* whose metadata field is non-null; a line is omitted when no section has a
\* value for it; the lines appear in the order BPM, Key, Time Signature, and
\* the last line of the output is "Duration: {global.duration_seconds}s".
C18_FlattenMetadataSelection ==
  (last.op = "flatten" /\ FixedMode(last.tree)) =>
    LET lines == Lines(last.result)
        tail == ExpectedTail(last.tree)
        body == 3 + 3 * Len(last.tree.root.sections)
    IN /\ Len(lines) = body + Len(tail)
       /\ SubSeq(lines, body + 1, Len(lines)) = tail

\* the key comes from the first section and the BPM and the time signature
\* from the second, which has a key of its own
C18_Witness ==
  /\ last.op = "flatten"
  /\ FixedMode(last.tree)
  /\ Len(last.tree.root.sections) >= 2
  /\ WithMeta(last.tree, "suggested_bpm") = {2}
  /\ WithMeta(last.tree, "time_signature") = {2}
  /\ WithMeta(last.tree, "key") = {1, 2}
  /\ MetaValue(last.tree, 1, "key") # MetaValue(last.tree, 2, "key")
  /\ LET lines == Lines(last.result)
     IN SubSeq(lines, Len(lines) - 3, Len(lines))
          = <<S_BPM \o Digits(MetaValue(last.tree, 2, "suggested_bpm").v),
              S_Key \o MetaValue(last.tree, 1, "key").v,
              S_TimeSignature \o MetaValue(last.tree, 2, "time_signature").v,
              S_Duration \o Digits(last.tree.root.global.duration_seconds.v) \o <<"s">>>>

\* ----------------------------------------------------------------------
\* C19
\* ----------------------------------------------------------------------
RECURSIVE SameShape(_, _)
\* the visual node v and the generic node n have children at the same
\* positions, all the way down
SameShape(v, n) ==
  LET kids == FieldOr(n, "children", <<>>)
  IN /\ Len(v.children) = Len(kids)
     /\ \A i \in DOMAIN kids : SameShape(v.children[i], kids[i])

\* v is a visual tree of the section sct: a root of kind "section" that, for
\* a generic section, has the shape of the section's tree
VisualTreeOf(v, sct) ==
  /\ v.kind = "section"
  /\ HasTree(sct.branches) => SameShape(v, sct.branches.tree)

\* C19: in every reachable application state the visual-tree array has
\* exactly as many elements as the canonical tree has sections, and is empty
\* when there is no tree, element i being the visual tree of section i.
C19_VisualTreesAlignedWithSections ==
  IF tree = Null
  THEN visualTrees = <<>>
  ELSE /\ Len(visualTrees) = Len(tree.root.sections)
       /\ \A i \in DOMAIN visualTrees : VisualTreeOf(visualTrees[i], tree.root.sections[i])

\* the second of two sections has been removed and the remaining visual tree
\* is the one of the generated section, children included
C19_Witness ==
  /\ last.op = "handleRemoveSection"
  /\ last.index = 1
  /\ tree # Null
  /\ Len(tree.root.sections) = 1
  /\ Len(visualTrees) = 1
  /\ HasTree(tree.root.sections[1].branches)
  /\ visualTrees[1].children # <<>>
  /\ SameShape(visualTrees[1], tree.root.sections[1].branches.tree)

\* ----------------------------------------------------------------------
\* C20
\* ----------------------------------------------------------------------
\* every entry of the history is still there, unchanged and in the same
\* order, behind at most one new entry
HistoryKeptStep ==
  \E k \in 0..1 :
    /\ Len(history') = Len(history) + k
    /\ SubSeq(history', k + 1, Len(history')) = history

\* C20: once a history entry has been created, no later event changes its
\* id, canonical tree, visual trees or flattened prompt, removes it from the
\* history, or changes the relative order of the existing entries.
C20_HistoryAppendOnly == [][HistoryKeptStep]_vars

\* two entries, newest first, and a node edit after the second one: the
\* current tree has moved on from the entries
C20_Witness ==
  /\ last.op = "handleEdit"
  /\ Len(history) = 2
  /\ history[1].id # history[2].id
  /\ tree # history[1].tree
  /\ visualTrees # history[1].visualTrees

\* ----------------------------------------------------------------------
\* C21
\* ----------------------------------------------------------------------
\* r is the root of a legacy fixed-attribute VibeTree document
IsLegacyRoot(r) ==
  /\ "concept" \in DOMAIN r
  /\ "sections" \in DOMAIN r
  /\ "global" \in DOMAIN r

\* a legacy document, bare or wrapped, has been ingested
LegacyIngestCase ==
  /\ last.op = "ingest"
  /\ CharacteristicsOf(last.data).t = "payload"
  /\ IsLegacyRoot(CharacteristicsOf(last.data).root)

\* C21: given a legacy fixed-attribute VibeTree document
\* {root: {concept, sections, global}}, ingestion yields a canonical tree
\* that retains the document's concept, its sections in order, and each
\* section's fixed-attribute branches.
C21_IngestAcceptsLegacyDocument ==
  LegacyIngestCase =>
    LET doc == CharacteristicsOf(last.data).root
    IN /\ last.result.t = "return"
       /\ last.result.value.root.concept = doc.concept
       /\ Len(last.result.value.root.sections) = Len(doc.sections)
       /\ \A i \in DOMAIN doc.sections :
            /\ last.result.value.root.sections[i].name = doc.sections[i].name
            /\ last.result.value.root.sections[i].branches = doc.sections[i].branches

\* ----------------------------------------------------------------------
\* C22
\* ----------------------------------------------------------------------
\* cur is still sectionToVisualTree(sec)
ProjectionCase == nops = 0

\* C22: for every section of either variant, sectionToVisualTree returns a
\* tree whose root has kind "section" and whose root label equals the
\* section's name, including for a renamed section and for a generic section
\* that ingestion produced from a root with an empty name.
C22_ProjectionRootIsSectionName ==
  ProjectionCase =>
    /\ cur.kind = "section"
    /\ cur.label = sec.name

\* ----------------------------------------------------------------------
\* C23
\* ----------------------------------------------------------------------
RECURSIVE LabelOnly(_, _, _)
\* diff is the entry diffTrees(node, previous) made for node: when node's id
\* is found in previous its status is "changed" exactly when the labels
\* differ, and the entries of its children, each diffed against its
\* counterpart among the matched node's children, are so too
LabelOnly(diff, node, previous) ==
  LET prevNode == IF previous = Null THEN Null ELSE findNodeById(previous, node.id)
  IN IF prevNode = Null THEN TRUE
     ELSE /\ diff.status = IF node.label # prevNode.label THEN "changed" ELSE "unchanged"
          /\ \A i \in DOMAIN node.children :
               LabelOnly(diff.childrenDiff[i], node.children[i],
                         findChild(prevNode.children, node.children[i].id))

\* C23: when the current node's id is found in the previous tree, its
\* status is "changed" exactly when its label differs from the matched
\* previous node's label and "unchanged" otherwise; adding, removing or
\* relabelling descendants of a node never changes that node's own status.
C23_DiffStatusIsLabelOnly ==
  last.op = "diff" => LabelOnly(last.result, last.current, last.previous)

\* the root kept its label and is "unchanged" although a node was added
\* below it, another removed and a third relabelled
C23_Witness ==
  /\ last.op = "diff"
  /\ last.previous # Null
  /\ last.current.id = last.previous.id
  /\ last.current.label = last.previous.label
  /\ last.result.status = "unchanged"
  /\ \E d \in Range(last.flat) : d.status = "added"
  /\ \E d \in Range(last.flat) : d.status = "removed"
  /\ \E d \in Range(last.flat) : d.status = "changed"

\* ======================================================================
\* SpecFallback: diffTrees with and without its empty-children fallback,
\* applied to every pair of a set of small trees, one pair after the other
\* ======================================================================
\* sixteen trees of one to three nodes, by number: a leaf, a root with one
\* or two children, a chain of three; the two lower ids either way round; the
\* root labelled "a" or "x"
ScanTree(k) ==
  LET b == nodeId(1 + ((k \div 4) % 2))
      c == nodeId(2 - ((k \div 4) % 2))
      l == IF k \div 8 = 0 THEN A ELSE X
      shape == k % 4
  IN VNode(nodeId(0), l, "section",
       IF shape = 0 THEN <<>>
       ELSE IF shape = 1 THEN <<VNode(b, A, "custom", <<>>)>>
       ELSE IF shape = 2 THEN <<VNode(b, A, "custom", <<>>), VNode(c, B, "custom", <<>>)>>
       ELSE <<VNode(b, A, "custom", <<VNode(c, B, "custom", <<>>)>>)>>)

\* the pairs (current, previous), previous possibly null, by number
PairCount == 16 * 17
CurrentOf(n) == ScanTree((n - 1) % 16)
PreviousOf(n) == IF (n - 1) \div 16 = 16 THEN Null ELSE ScanTree((n - 1) \div 16)

FallbackInit ==
  /\ AppIdle
  /\ cur = Null
  /\ prev = Null
  /\ sec = Null
  /\ nodeCounter = 0
  /\ issued = <<>>
  /\ nops = 0
  /\ last = [op |-> "init", differed |-> FALSE]

\* the next pair is diffed both ways; differed records whether some pair so
\* far got different entries from the two variants
FallbackScan ==
  /\ nops < PairCount
  /\ nops' = nops + 1
  /\ cur' = CurrentOf(nops')
  /\ prev' = PreviousOf(nops')
  /\ LET with == diffTrees(cur', prev')
         without == diffTreesWithoutFallback(cur', prev')
     IN last' = [op |-> "scan", with |-> with, without |-> without,
                 differed |-> last.differed \/ with # without]
  /\ UNCHANGED <<sec, nodeCounter, issued, appVars>>

FallbackNext == FallbackScan

SpecFallback == FallbackInit /\ [][FallbackNext]_vars

\* ----------------------------------------------------------------------
\* C24
\* ----------------------------------------------------------------------
\* the call takes the fallback branch at its root: the root is matched and
\* no entry was accumulated for a current or a removed child
FallbackTaken(c, p) ==
  /\ p # Null
  /\ findNodeById(p, c.id) # Null
  /\ c.children = <<>>
  /\ findNodeById(p, c.id).children = <<>>

\* C24 as stated: there is a pair (current, previous) for which the diff
\* computed without the fallback lacks an entry that the diff with the
\* fallback contains; once every pair has been diffed, some pair differed.
C24_FallbackIsLoadBearing ==
  nops = PairCount => last.differed

\* C24, amended: the fallback is never observable; the diff with the
\* fallback and the diff without it are equal for every pair, because the
\* accumulated list is empty only when the current node has no children.
C24_FallbackIsUnobservable ==
  last.op = "scan" => last.with = last.without

\* a pair that takes the fallback branch, with a matched, unchanged root
C24_Witness ==
  /\ last.op = "scan"
  /\ FallbackTaken(cur, prev)
  /\ last.with.status = "unchanged"
  /\ last.with.childrenDiff = <<>>
  /\ last.with = last.without

\* ======================================================================
\* SpecParse: parseLabelToNameValue applied to a label
\* ======================================================================
COLON == <<":", " ">>
T_12 == <<"1", "2">>
T_007 == <<"0", "0", "7">>
T_12_padded == <<" ", "1", "2", " ">>
T_blank == <<" ">>
T_list == <<"a", ",", " ", "b">>
T_numbers == <<"1", ",", " ", "2">>
T_comma == <<"a", ",", "b">>
T_object == <<"{", "\"", "k", "\"", ":", "\"", "v", "\"", "}">>
T_object_list ==
  <<"{", "\"", "k", "\"", ":", "\"", "b", ",", " ", "c", "\"", "}">>
T_empty_array == <<"[", "]">>
T_empty_object == <<"{", "}">>
T_open_bracket == <<"[", "x">>
T_open_brace == <<"{", "k">>
T_nested == <<"b", ":", " ", "c">>
T_12x == <<"1", "2", "x">>

ValueTexts ==
  {<<>>, T_blank, A, T_12, T_007, T_12_padded, T_12x, T_list, T_numbers, T_comma,
   T_object, T_object_list, T_empty_array, T_empty_object, T_open_bracket,
   T_open_brace, T_nested, S_faint_wind}

LabelNames == {<<>>, A, S_bowed_pad, <<"a", ":">>}

ParseLabels ==
  LabelNames \cup ValueTexts \cup {n \o COLON \o t : n \in LabelNames, t \in ValueTexts}

ParseInit ==
  /\ AppIdle
  /\ cur = Null
  /\ prev = Null
  /\ sec = Null
  /\ nodeCounter = 0
  /\ issued = <<>>
  /\ nops = 0
  /\ last \in {[op |-> "label", label |-> l] : l \in ParseLabels}

\* parseLabelToNameValue(label)
Parse ==
  /\ last.op = "label"
  /\ last' = [op |-> "parse", label |-> last.label,
              result |-> parseLabelToNameValue(last.label)]
  /\ UNCHANGED <<cur, prev, sec, nops, nodeCounter, issued, appVars>>

ParseNext == Parse

SpecParse == ParseInit /\ [][ParseNext]_vars

\* ----------------------------------------------------------------------
\* C25
\* ----------------------------------------------------------------------
Contains(s, pat) == IndexOf(s, pat) # 0

\* the text parses as a number and is not blank
IsNumberText(t) == Trim(t) # <<>> /\ \A i \in DOMAIN Trim(t) : Trim(t)[i] \in DigitChars

\* the text starts with "{" or "[" and parses as JSON
IsJsonText(t) == t # <<>> /\ Head(t) \in {"{", "["} /\ JSONParse(t).ok

\* the value the claim's order of precedence gives the text
ValueByPrecedence(t) ==
  IF IsNumberText(t) THEN Num(DecimalValue(Trim(t)))
  ELSE IF Contains(t, <<",", " ">>)
    THEN Arr([i \in DOMAIN Split(t, <<",", " ">>) |-> Str(Split(t, <<",", " ">>)[i])])
  ELSE IF IsJsonText(t) THEN JSONParse(t).value
  ELSE Str(t)

\* C25: a label without ": " yields name = label and value null; otherwise
\* the label is split at the first ": " into name and value text, and the
\* value is a number if the text parses as a number and is not blank, else
\* the list obtained by splitting on ", " if the text contains ", ", else
\* the parsed JSON if the text starts with "{" or "[" and parses, else the
\* text as a plain string.
C25_LabelParsingOrder ==
  last.op = "parse" =>
    LET i == IndexOf(last.label, COLON)
    IN IF i = 0
       THEN last.result = [name |-> last.label, value |-> Null]
       ELSE /\ last.result.name = SubSeq(last.label, 1, i - 1)
            /\ ~Contains(last.result.name, COLON)
            /\ last.result.value
                 = ValueByPrecedence(SubSeq(last.label, i + 2, Len(last.label)))

\* a text that parses as JSON and contains ", " becomes the list
C25_Witness ==
  /\ last.op = "parse"
  /\ last.label = A \o COLON \o T_object_list
  /\ IsJsonText(T_object_list)
  /\ last.result.name = A
  /\ last.result.value.t = "array"
  /\ Len(last.result.value.v) = 2

\* ----------------------------------------------------------------------
\* C26
\* ----------------------------------------------------------------------
\* sections[0].branches.tree is a generic node
GenericMode(t) ==
  /\ t.root.sections # <<>>
  /\ HasTree(t.root.sections[1].branches)
  /\ "name" \in DOMAIN t.root.sections[1].branches.tree

AnyGlobals ==
  GapGlobals \cup {VibeTreeOf(<<>>, tags).root.global : tags \in {<<>>, <<S_ambient, X>>}}

\* the trees that agree with t on the first section and differ elsewhere
AgreeingTrees(t) ==
  {[root |-> [concept |-> t.root.concept,
              sections |-> <<t.root.sections[1]>> \o r,
              global |-> g]] :
     r \in SectionLists(MaxSections - 1), g \in AnyGlobals}

NoGlobalLine(lines) ==
  \A i \in DOMAIN lines : ~StartsWith(lines[i], S_Tags) /\ ~StartsWith(lines[i], S_Duration)

\* the block of every section, generic or not, after the "Lyrics:" line
EverySectionHasBlock(t, lines) ==
  /\ Len(lines) >= 4 + 3 * Len(t.root.sections)
  /\ StartsWith(lines[1], S_Tags)
  /\ lines[3] = S_Lyrics
  /\ StartsWith(lines[Len(lines)], S_Duration)
  /\ \A i \in DOMAIN t.root.sections :
       /\ lines[3 * i + 1] = <<"[">> \o Capitalize(t.root.sections[i].name) \o <<"]">>
       /\ StartsWith(lines[3 * i + 2], <<"(">>)

\* C26: if sections[0].branches.tree is a generic node, the output of
\* flattenTree is a function of that one generic tree alone: every tree that
\* agrees on sections[0] and differs in the later sections, in global.tags or
\* in global.duration_seconds flattens to the same text, which has no Tags
\* and no Duration line; otherwise the fixed-attribute format is used for
\* all the sections.
C26_ModeChosenByFirstSection ==
  last.op = "flatten" =>
    IF GenericMode(last.tree)
    THEN /\ \A u \in AgreeingTrees(last.tree) : flattenTree(u) = last.result
         /\ NoGlobalLine(Lines(last.result))
    ELSE EverySectionHasBlock(last.tree, Lines(last.result))

\* a generic first section followed by a fixed-attribute section with
\* metadata, under non-empty global tags and a duration
C26_Witness ==
  /\ last.op = "flatten"
  /\ GenericMode(last.tree)
  /\ Len(last.tree.root.sections) = 2
  /\ ~HasTree(last.tree.root.sections[2].branches)
  /\ Br(last.tree.root.sections[2].branches, "metadata") = FullMeta
  /\ Br(last.tree.root.global, "tags") = Arr(<<S_ambient, X>>)
  /\ Br(last.tree.root.global, "duration_seconds") = Num(180)
  /\ NoGlobalLine(Lines(last.result))
  /\ \E u \in AgreeingTrees(last.tree) :
       u # last.tree /\ Len(u.root.sections) = 1 /\ flattenTree(u) = last.result

\* a fixed-attribute first section followed by a generic one
C26_FixedWitness ==
  /\ last.op = "flatten"
  /\ ~GenericMode(last.tree)
  /\ Len(last.tree.root.sections) = 2
  /\ HasTree(last.tree.root.sections[2].branches)
  /\ EverySectionHasBlock(last.tree, Lines(last.result))

\* ----------------------------------------------------------------------
\* C27
\* ----------------------------------------------------------------------
RECURSIVE ShapeOf(_)
\* the shape, labels and kinds of a visual tree, ids aside
ShapeOf(node) ==
  [label |-> node.label, kind |-> node.kind,
   children |-> [i \in DOMAIN node.children |-> ShapeOf(node.children[i])]]

\* visual tree i shows what the canonical section i projects to
Synchronized(i) ==
  /\ i \in DOMAIN tree.root.sections
  /\ ShapeOf(visualTrees[i]) = ShapeOf(sectionToVisualTree(tree.root.sections[i], 0))

NodeEdited == last.op \in {"handleEdit", "handleDelete", "handleAdd"}

\* C27: after a node-level operation (rename node, add child, delete node)
\* has been applied and committed, for every section index i the visual
\* tree i has the same shape, labels and kinds, ids aside, as
\* sectionToVisualTree applied to the updated canonical section i.
C27_ModelsStaySynchronized ==
  NodeEdited => \A i \in DOMAIN visualTrees : Synchronized(i)

\* ----------------------------------------------------------------------
\* C28
\* ----------------------------------------------------------------------
\* C28: in every reachable application state selectedNodeId is either null
\* or the id of a node that exists in the active section's visual tree; in
\* particular after deleting an ancestor of the selected node, after a
\* detail-panel update of the selected node's section, after removing a
\* section and after restoring a history entry.
C28_SelectionNeverDangles ==
  \/ selectedNodeId = NullId
  \/ /\ activeSection + 1 \in DOMAIN visualTrees
     /\ selectedNodeId \in IdsOf(ActiveTree)

\* ----------------------------------------------------------------------
\* C29
\* ----------------------------------------------------------------------
\* C29: in every reachable application state with a non-empty visual-tree
\* array, 0 <= activeSection < number of sections, after any sequence of
\* generate-completion, add-section, remove-section (of any index, the
\* active one and the last one included) and history-restore events; and a
\* loaded tree never ends up with zero sections.
C29_ActiveSectionInRange ==
  /\ visualTrees # <<>> =>
       /\ tree # Null
       /\ 0 <= activeSection
       /\ activeSection < Len(tree.root.sections)
       /\ activeSection < Len(visualTrees)
  /\ tree # Null => tree.root.sections # <<>>

\* the active section, which was the last one, has been removed
C29_Witness ==
  /\ last.op = "handleRemoveSection"
  /\ last.active = last.index
  /\ last.index = Len(tree.root.sections)
  /\ visualTrees # <<>>
  /\ activeSection = Len(tree.root.sections) - 1

\* ----------------------------------------------------------------------
\* C30
\* ----------------------------------------------------------------------
\* the visual node of the instruments group of a projected section
InstrumentsGroup(v) ==
  v.children[CHOOSE i \in DOMAIN v.children : v.children[i].kind = "instruments"]

InstrumentCount(s) ==
  IF ~HasTree(s.branches) /\ Truthy(Br(s.branches, "instruments"))
  THEN Len(s.branches.instruments.v) ELSE 0

\* the tree committed is the projection of sec with the visual node of
\* instrument k deleted, and sec has at least two instruments
InstrumentDeleted(k) ==
  /\ last.op = "commit"
  /\ nops = 1
  /\ last.original = sec
  /\ InstrumentCount(sec) >= 2
  /\ k \in 1..InstrumentCount(sec)
  /\ \E i \in DOMAIN prev.children : prev.children[i].kind = "instruments"
  /\ last.node = deleteVisualNode(prev, InstrumentsGroup(prev).children[k].id)

\* C30: for a fixed-attribute section with at least two instruments, after
\* the visual node of instrument k is deleted and the tree is committed, the
\* canonical section holds exactly the other instruments, each with the
\* name, role and character it had before the deletion.
C30_DeleteInstrumentKeepsOthers ==
  \A k \in 1..InstrumentCount(sec) :
    InstrumentDeleted(k) =>
      last.result.branches.instruments
        = Arr(RemoveAt(sec.branches.instruments.v, k))

====
